---- MODULE Spec2Model ----
(***************************************************************************)
(* Symbol rendering pipeline of src/render/draw_symbol.ts: drawSymbols,    *)
(* drawLayerSymbols (the draw batcher) and drawOcclusions (the occlusion   *)
(* tracker).  One call of drawSymbols is one step; the GL / query calls it *)
(* issues are recorded, in order, in the variable calls.                   *)
(***************************************************************************)
EXTENDS Integers, Sequences, FiniteSets, TLC

\* ---------------------------------------------------------------- bounds
NumTiles == 2          \* tiles in the visible-tile list (coords)
MaxInstances == 2      \* symbol instances per bucket
MaxWindow == 2         \* largest painter.symbolParams.occlusionQueryFrameWindow
FrameCounterWrap == 3  \* painter.frameCounter is kept modulo this
MaxSamples == 1        \* largest sample count a query result reports
MaxSegments == 1       \* segments per buffer (icon / text) of a bucket
MaxSortKey == 2        \* sort keys are 1..MaxSortKey
MaxPlaced == 2         \* placed symbols per placedSymbolArray
MaxGlyphs == 2         \* largest numGlyphs of a placed symbol
MaxCrossTileID == 1    \* cross-tile IDs are 1..MaxCrossTileID (0: none)
MaxImageSize == 2      \* images are 1..MaxImageSize pixels wide and 1 high

\* ------------------------------------------------------------- constants
\* the two values drawOcclusions stores in symbolInstance.occlusionState
OcclusionStateZero == 0
OcclusionStateOne == 1

Tiles == 1..NumTiles
Instances == 0..(MaxInstances - 1)
CrossTileIDs == 1..MaxCrossTileID
RenderPasses == {"opaque", "translucent"}
VisualizeModes == {"none", "zPass", "zTest"}
\* tile.getBucket(layer) returned nothing
NoBucket == [present |-> FALSE]
\* a render state that was not built (null)
NullState == [null |-> TRUE]
NoQuery == "none"
Absent == "absent"

VARIABLES
    frameCounter,    \* painter.frameCounter
    renderPass,      \* painter.renderPass of the last drawSymbols call
    symbolParams,    \* painter.symbolParams
    layer,           \* the symbol style layer's layout / paint values
    projectionName,  \* painter.transform.projection.name
    coords,          \* the visible-tile coordinate list
    buckets,         \* tile.getBucket(layer), per tile
    opacities,       \* painter.style.placement.opacities, per instance
    queries,         \* bucket.queries: state of the instance's OcclusionQuery
    queryCount,      \* OcclusionQuery objects constructed for the instance
    occlusionState,  \* symbolInstance.occlusionState
    calls,           \* calls issued by the drawSymbols call that just returned
    warned,          \* warnOnce has printed the globe-occlusion message
    variableOffsets, \* the variable offset of each cross-tile ID, if any
    dynamicText,     \* bucket.text.dynamicLayoutVertexArray, per tile
    dynamicIcon,     \* bucket.icon.dynamicLayoutVertexArray, per tile
    view,            \* painter.options.rotating / zooming, transform.pitch
    texture          \* a Texture object (render/texture.ts), if constructed

vars == <<frameCounter, renderPass, symbolParams, layer, projectionName, coords,
          buckets, opacities, queries, queryCount, occlusionState, calls,
          warned, variableOffsets, dynamicText, dynamicIcon, view, texture>>

\* --------------------------------------------------------------- helpers
SeqsUpTo(S, n) == UNION {[1..m -> S] : m \in 0..n}

\* events of the call log
QueryEvent(name, t, i) == [op |-> name, tile |-> t, inst |-> i]
ConsumeEvent(t, i, samples) ==
    [op |-> "consume", tile |-> t, inst |-> i, samples |-> samples]
OccluderEvent(t, i, color, depthFunc) ==
    [op |-> "occluder", tile |-> t, inst |-> i, color |-> color,
     depthFunc |-> depthFunc]

\* -------------------------------------------------------- OcclusionQuery
\* gl/query.ts is not part of the sources; the query's life cycle is
\* free -> pending -> available -> free.
IsFree(q) == q = "free"
IsResultAvailable(q) == q = "available"
QueryAfterBegin(q) == "pending"
QueryAfterConsume(q) == "free"
NewOcclusionQuery == "free"

\* ------------------------------------------------------- drawOcclusions
\* the frame window used for a bucket
QueryFrameWindowIgnoresVisualize == symbolParams.occlusionQueryFrameWindow

QueryFrameWindow ==
    IF symbolParams.visualizeOcclusions # "none"
    THEN 1
    ELSE symbolParams.occlusionQueryFrameWindow

\* the layer has occlusion-driven opacity
SubjectForOcclusion ==
    LET iconHasOcclusionOpacity == layer.iconOcclusionOpacity # 1
        textHasOcclusionOpacity == layer.textOcclusionOpacity # 1
    IN  layer.hasInitialOcclusionOpacityProperties
        /\ (iconHasOcclusionOpacity \/ textHasOcclusionOpacity)

\* jointOpacity && jointOpacity.isHidden()
IsHiddenByPlacementNever(jointOpacity) == FALSE

IsHiddenByPlacement(jointOpacity) ==
    jointOpacity # Absent /\ jointOpacity = "hidden"

\* the instance's slot of the frame window matches the frame counter
InFrameSlotIgnoresIndex(F, i, W) == (F % W) = 0

InFrameSlotAlways(F, i, W) == TRUE

InFrameSlot(F, i, W) == ((F + i) % W) = 0

\* what the loop body does with q = bucket.queries.get(symbolInstanceId)
QueryDecisionBeginsUnfree(q) ==
    IF q # NoQuery THEN "reuse" ELSE "create"

QueryDecisionReallocates(q) ==
    IF q # NoQuery /\ ~IsFree(q)
    THEN IF ~IsResultAvailable(q) THEN "skip" ELSE "consume"
    ELSE "create"

QueryDecisionRestartsPending(q) ==
    IF q # NoQuery
    THEN IF ~IsFree(q) /\ IsResultAvailable(q) THEN "consume" ELSE "reuse"
    ELSE "create"

QueryDecisionReadsUnavailable(q) ==
    IF q # NoQuery
    THEN IF ~IsFree(q) THEN "consume" ELSE "reuse"
    ELSE "create"

QueryDecision(q) ==
    IF q # NoQuery
    THEN IF ~IsFree(q)
         THEN IF ~IsResultAvailable(q) THEN "skip" ELSE "consume"
         ELSE "reuse"
    ELSE "create"

\* newState = samplesPassed === 0 ? 0 : 1
NewOcclusionStateInverted(samplesPassed) ==
    IF samplesPassed = 0 THEN OcclusionStateOne ELSE OcclusionStateZero

NewOcclusionState(samplesPassed) ==
    IF samplesPassed = 0 THEN OcclusionStateZero ELSE OcclusionStateOne

\* gl.getQueryParameter(query, QUERY_RESULT): the sample count the GL reports;
\* 0 for a query whose result is not available
QueryResult(results, t, i) ==
    IF <<t, i>> \in DOMAIN results THEN results[<<t, i>>] ELSE 0

\* q.consumeResult(); symbolInstance.occlusionState = newState
ConsumeQueryKeepsResult(st, t, i, samplesPassed) ==
    [st EXCEPT !.occlusionState[t][i] = NewOcclusionState(samplesPassed),
               !.calls = Append(@, ConsumeEvent(t, i, samplesPassed))]

ConsumeQuery(st, t, i, samplesPassed) ==
    [st EXCEPT !.queries[t][i] = QueryAfterConsume(@),
               !.occlusionState[t][i] = NewOcclusionState(samplesPassed),
               !.calls = Append(@, ConsumeEvent(t, i, samplesPassed))]

\* query = new OcclusionQuery(...); bucket.queries.set(symbolInstanceId, query)
CreateQuery(st, t, i) ==
    [st EXCEPT !.queries[t][i] = NewOcclusionQuery,
               !.queryCount[t][i] = @ + 1,
               !.calls = Append(@, QueryEvent("create", t, i))]

\* the occluder quad's draw call, inside begin()/end() when a query is used
IssueOccluderWithoutEnd(st, t, i, hasQuery) ==
    LET vis == symbolParams.visualizeOcclusions
        color == IF vis = "zPass" THEN "zPassColor" ELSE "zTestColor"
        depthFunc == IF vis = "zPass" THEN "ALWAYS" ELSE "LEQUAL"
        useQuery == vis = "none" /\ hasQuery
        begun == IF useQuery
                 THEN Append(st.calls, QueryEvent("begin", t, i))
                 ELSE st.calls
    IN  [st EXCEPT !.queries[t][i] = IF useQuery THEN QueryAfterBegin(@) ELSE @,
                   !.calls = Append(begun, OccluderEvent(t, i, color, depthFunc))]

IssueOccluder(st, t, i, hasQuery) ==
    LET vis == symbolParams.visualizeOcclusions
        color == IF vis = "zPass" THEN "zPassColor" ELSE "zTestColor"
        depthFunc == IF vis = "zPass" THEN "ALWAYS" ELSE "LEQUAL"
        useQuery == vis = "none" /\ hasQuery
        begun == IF useQuery
                 THEN Append(st.calls, QueryEvent("begin", t, i))
                 ELSE st.calls
        drawn == Append(begun, OccluderEvent(t, i, color, depthFunc))
        ended == IF useQuery
                 THEN Append(drawn, QueryEvent("end", t, i))
                 ELSE drawn
    IN  [st EXCEPT !.queries[t][i] = IF useQuery THEN QueryAfterBegin(@) ELSE @,
                   !.calls = ended]

\* one iteration of the loop over bucket.symbolInstances
OcclusionInstanceBeginsAfterConsume(st, t, i, results) ==
    IF IsHiddenByPlacement(opacities[t][i]) THEN st
    ELSE IF ~InFrameSlot(frameCounter, i, QueryFrameWindow) THEN st
    ELSE IF symbolParams.visualizeOcclusions = "none"
         THEN LET d == QueryDecision(st.queries[t][i])
              IN  CASE d = "skip" ->
                           [st EXCEPT !.calls = Append(@, QueryEvent("poll", t, i))]
                    [] d = "consume" ->
                           IssueOccluder(ConsumeQuery(st, t, i, QueryResult(results, t, i)),
                                         t, i, TRUE)
                    [] d = "reuse" -> IssueOccluder(st, t, i, TRUE)
                    [] OTHER -> IssueOccluder(CreateQuery(st, t, i), t, i, TRUE)
         ELSE IssueOccluder(st, t, i, FALSE)

OcclusionInstance(st, t, i, results) ==
    IF IsHiddenByPlacement(opacities[t][i]) THEN st
    ELSE IF ~InFrameSlot(frameCounter, i, QueryFrameWindow) THEN st
    ELSE IF symbolParams.visualizeOcclusions = "none"
         THEN LET d == QueryDecision(st.queries[t][i])
              IN  CASE d = "skip" ->
                           [st EXCEPT !.calls = Append(@, QueryEvent("poll", t, i))]
                    [] d = "consume" -> ConsumeQuery(st, t, i, QueryResult(results, t, i))
                    [] d = "reuse" -> IssueOccluder(st, t, i, TRUE)
                    [] OTHER -> IssueOccluder(CreateQuery(st, t, i), t, i, TRUE)
         ELSE IssueOccluder(st, t, i, FALSE)

RECURSIVE OcclusionInstances(_, _, _, _)
OcclusionInstances(st, t, i, results) ==
    IF i >= buckets[t].numInstances
    THEN st
    ELSE OcclusionInstances(OcclusionInstance(st, t, i, results), t, i + 1, results)

\* warnOnce(message): prints the message unless it was printed before
WarnOnce(st, t) ==
    [st EXCEPT !.calls = Append(@, [op |-> "warnOnce", tile |-> t,
                                     printed |-> ~st.warned]),
               !.warned = TRUE]

\* one iteration of the loop over coords
OcclusionTileTracksGlobe(st, t, results) ==
    IF ~buckets[t].present THEN st
    ELSE IF buckets[t].fullyClipped THEN st
    ELSE OcclusionInstances(st, t, 0, results)

OcclusionTile(st, t, results) ==
    IF ~buckets[t].present THEN st
    ELSE IF buckets[t].projection = "mercator" /\ projectionName = "globe" THEN st
    ELSE IF buckets[t].fullyClipped THEN st
    ELSE IF buckets[t].projection = "globe"
         THEN WarnOnce(st, t)
         ELSE OcclusionInstances(st, t, 0, results)

RECURSIVE OcclusionTiles(_, _, _)
OcclusionTiles(st, k, results) ==
    IF k > Len(coords)
    THEN st
    ELSE OcclusionTiles(OcclusionTile(st, coords[k], results), k + 1, results)

\* drawOcclusions(painter, sourceCache, layer, coords); the call itself is
\* recorded in the log
DrawOcclusionsEvent == [op |-> "drawOcclusions"]

DrawOcclusionsAlwaysEnabled(st, results) ==
    LET entered == [st EXCEPT !.calls = Append(@, DrawOcclusionsEvent)]
    IN  IF ~SubjectForOcclusion THEN entered
        ELSE OcclusionTiles(entered, 1, results)

DrawOcclusions(st, results) ==
    LET entered == [st EXCEPT !.calls = Append(@, DrawOcclusionsEvent)]
    IN  IF ~symbolParams.useOcclusionQueries THEN entered
        ELSE IF ~SubjectForOcclusion THEN entered
        ELSE OcclusionTiles(entered, 1, results)

\* ----------------------------------------------------- drawLayerSymbols
NoOptions == [onlyIcons |-> FALSE, onlyText |-> FALSE]
OnlyIcons == [onlyIcons |-> TRUE, onlyText |-> FALSE]
OnlyText == [onlyIcons |-> FALSE, onlyText |-> TRUE]

\* the OCCLUSION_QUERIES define of the render state's program for a kind
\* whose occlusion opacity is occlusionOpacity
OcclusionQueriesDefine(t, occlusionOpacity) ==
    /\ layer.hasInitialOcclusionOpacityProperties
    /\ occlusionOpacity # 1
    /\ symbolParams.useOcclusionQueries
    /\ buckets[t].projection # "globe"
    /\ projectionName # "globe"

\* gl.LINEAR / gl.NEAREST of the icon render state
IconAtlasInterpolationIgnoresSDF(t) ==
    LET transformed == layer.iconPitchWithMap \/ view.pitch # 0
        iconScaled == layer.iconSize # 1 \/ buckets[t].iconsNeedLinear
    IN  IF view.rotating \/ view.zooming \/ iconScaled \/ transformed
        THEN "LINEAR" ELSE "NEAREST"

IconAtlasInterpolation(t) ==
    LET transformed == layer.iconPitchWithMap \/ view.pitch # 0
        iconScaled == layer.iconSize # 1 \/ buckets[t].iconsNeedLinear
    IN  IF \/ buckets[t].sdfIcons
           \/ view.rotating \/ view.zooming \/ iconScaled \/ transformed
        THEN "LINEAR" ELSE "NEAREST"

\* atlasInterpolationIcon of the text render state of a bucket with icons in
\* its text
TextAtlasInterpolationIcon(t) ==
    LET transformed == layer.pitchWithMap \/ view.pitch # 0
        zoomDependentSize == buckets[t].textSizeData = "zoomDependent"
    IN  IF transformed \/ view.rotating \/ view.zooming \/ zoomDependentSize
        THEN "LINEAR" ELSE "NEAREST"

\* getIconState(): the fields of the icon render state the draw loop reads
IconState(t) ==
    [null |-> FALSE, kind |-> "icon", tile |-> t,
     occlusionQueries |-> OcclusionQueriesDefine(t, layer.iconOcclusionOpacity),
     isSDF |-> buckets[t].sdfIcons,
     atlasTexture |-> buckets[t].imageAtlasTexture,
     atlasTextureIcon |-> FALSE,
     atlasInterpolation |-> IconAtlasInterpolation(t),
     atlasInterpolationIcon |-> Absent,
     hasHalo |-> buckets[t].sdfIcons /\ layer.iconHaloWidth # 0,
     sdfUniforms |-> buckets[t].sdfIcons /\ ~buckets[t].iconsInText]

\* getTextState(): the fields of the text render state the draw loop reads
TextState(t) ==
    [null |-> FALSE, kind |-> "text", tile |-> t,
     occlusionQueries |-> OcclusionQueriesDefine(t, layer.textOcclusionOpacity),
     isSDF |-> TRUE,
     atlasTexture |-> buckets[t].glyphAtlasTexture,
     atlasTextureIcon |-> buckets[t].iconsInText /\ buckets[t].imageAtlasTexture,
     atlasInterpolation |-> "LINEAR",
     atlasInterpolationIcon |-> IF buckets[t].iconsInText
                                THEN TextAtlasInterpolationIcon(t) ELSE Absent,
     hasHalo |-> layer.textHaloWidth # 0,
     sdfUniforms |-> TRUE]

\* the tile is skipped by the loop over coords
TileSkipped(t) ==
    \/ ~buckets[t].present
    \/ (buckets[t].projection = "mercator" /\ projectionName = "globe")
    \/ buckets[t].fullyClipped

Indices(s) == [k \in 1..Len(s) |-> k]

\* the entries one tile pushes onto tileRenderState
TileEntriesIgnoringOptions(t, options) ==
    <<[segments |-> Indices(buckets[t].iconSegments), sortKey |-> 0,
       state |-> IconState(t)],
      [segments |-> Indices(buckets[t].textSegments), sortKey |-> 0,
       state |-> TextState(t)]>>

TileEntriesUnsplit(t, options) ==
    LET bucket == buckets[t]
        iconState == IF Len(bucket.iconSegments) # 0 /\ ~options.onlyText
                     THEN IconState(t) ELSE NullState
        textState == IF Len(bucket.textSegments) # 0 /\ ~options.onlyIcons
                     THEN TextState(t) ELSE NullState
    IN  (IF ~options.onlyText
         THEN <<[segments |-> IF layer.iconOpacity # 0
                              THEN Indices(bucket.iconSegments) ELSE <<>>,
                 sortKey |-> 0, state |-> iconState]>>
         ELSE <<>>)
        \o
        (IF ~options.onlyIcons
         THEN <<[segments |-> IF layer.textOpacity # 0
                              THEN Indices(bucket.textSegments) ELSE <<>>,
                 sortKey |-> 0, state |-> textState]>>
         ELSE <<>>)

TileEntries(t, options) ==
    LET bucket == buckets[t]
        iconSegmentsLength == Len(bucket.iconSegments)
        textSegmentsLength == Len(bucket.textSegments)
        iconState == IF iconSegmentsLength # 0 /\ ~options.onlyText
                     THEN IconState(t) ELSE NullState
        textState == IF textSegmentsLength # 0 /\ ~options.onlyIcons
                     THEN TextState(t) ELSE NullState
        iconOpacity == layer.iconOpacity
        textOpacity == layer.textOpacity
    IN  IF layer.hasSortKey /\ bucket.canOverlap
        THEN LET oldIconSegments == IF iconOpacity # 0 /\ ~options.onlyText
                                    THEN Indices(bucket.iconSegments) ELSE <<>>
                 oldTextSegments == IF textOpacity # 0 /\ ~options.onlyIcons
                                    THEN Indices(bucket.textSegments) ELSE <<>>
             IN  [k \in 1..Len(oldIconSegments) |->
                     [segments |-> <<oldIconSegments[k]>>,
                      sortKey |-> bucket.iconSegments[oldIconSegments[k]],
                      state |-> iconState]]
                 \o
                 [k \in 1..Len(oldTextSegments) |->
                     [segments |-> <<oldTextSegments[k]>>,
                      sortKey |-> bucket.textSegments[oldTextSegments[k]],
                      state |-> textState]]
        ELSE (IF ~options.onlyText
              THEN <<[segments |-> IF iconOpacity # 0
                                   THEN Indices(bucket.iconSegments) ELSE <<>>,
                      sortKey |-> 0, state |-> iconState]>>
              ELSE <<>>)
             \o
             (IF ~options.onlyIcons
              THEN <<[segments |-> IF textOpacity # 0
                                   THEN Indices(bucket.textSegments) ELSE <<>>,
                      sortKey |-> 0, state |-> textState]>>
              ELSE <<>>)

\* tileRenderState after the loop over coords
RECURSIVE TileRenderState(_, _)
TileRenderState(k, options) ==
    IF k = 0
    THEN <<>>
    ELSE TileRenderState(k - 1, options)
         \o (IF TileSkipped(coords[k]) THEN <<>> ELSE TileEntries(coords[k], options))

\* sortFeaturesByKey after the loop over coords
SortFeaturesByKey ==
    \E k \in 1..Len(coords) :
        /\ ~TileSkipped(coords[k])
        /\ layer.hasSortKey
        /\ buckets[coords[k]].canOverlap

\* Array.prototype.sort with (a, b) => a.sortKey - b.sortKey: a stable sort
RECURSIVE InsertBySortKeyBeforeTies(_, _)
InsertBySortKeyBeforeTies(sorted, e) ==
    IF sorted = <<>> THEN <<e>>
    ELSE IF sorted[Len(sorted)].sortKey - e.sortKey >= 0
         THEN Append(InsertBySortKeyBeforeTies(SubSeq(sorted, 1, Len(sorted) - 1), e),
                     sorted[Len(sorted)])
         ELSE Append(sorted, e)

RECURSIVE InsertBySortKey(_, _)
InsertBySortKey(sorted, e) ==
    IF sorted = <<>> THEN <<e>>
    ELSE IF sorted[Len(sorted)].sortKey - e.sortKey > 0
         THEN Append(InsertBySortKey(SubSeq(sorted, 1, Len(sorted) - 1), e),
                     sorted[Len(sorted)])
         ELSE Append(sorted, e)

RECURSIVE SortBySortKey(_)
SortBySortKey(list) ==
    IF list = <<>> THEN <<>>
    ELSE InsertBySortKey(SortBySortKey(SubSeq(list, 1, Len(list) - 1)),
                         list[Len(list)])

\* u_is_halo of a freshly built uniform bundle: symbolSDFUniformValues and
\* symbolTextAndIconUniformValues are called with isHalo = true, and
\* symbolIconUniformValues has no such uniform (recorded as 0, hasIsHalo FALSE)
InitialUniforms(state) ==
    [hasIsHalo |-> state.sdfUniforms,
     isHalo |-> IF state.sdfUniforms THEN 1 ELSE 0]

\* drawSymbolElements(buffers, segments, ..., uniformValues, instanceCount);
\* before and after are the state's uniform bundle when the loop body starts
\* and when it ends
DrawEvent(e, uniforms, instanceCount, before, after) ==
    [op |-> "draw", kind |-> e.state.kind, tile |-> e.state.tile,
     isHaloBefore |-> before.isHalo, isHaloAfter |-> after.isHalo,
     segments |-> e.segments, sortKey |-> e.sortKey,
     hasHalo |-> e.state.hasHalo, isSDF |-> e.state.isSDF,
     hasIsHalo |-> uniforms.hasIsHalo, isHalo |-> uniforms.isHalo,
     atlasBound |-> e.state.atlasTexture,
     atlasFilter |-> IF e.state.atlasTexture
                     THEN e.state.atlasInterpolation ELSE Absent,
     atlasFilterIcon |-> IF e.state.atlasTextureIcon
                         THEN e.state.atlasInterpolationIcon ELSE Absent,
     occlusionQueries |-> e.state.occlusionQueries,
     instanceCount |-> instanceCount]

SetIsHalo(uniforms, value) == [hasIsHalo |-> TRUE, isHalo |-> value]

\* the body of the loop over tileRenderState; acc.uniforms holds the uniform
\* bundle of each render state (one per tile and kind)
IssueEntryHaloOneInstance(acc, e) ==
    IF e.state.null THEN acc
    ELSE LET key == <<e.state.tile, e.state.kind>>
             u == acc.uniforms[key]
         IN  IF e.state.hasHalo
             THEN LET after == SetIsHalo(u, 0)
                  IN  [calls |-> Append(acc.calls,
                                        DrawEvent(e, SetIsHalo(u, 1), 1, u, after)),
                       uniforms |-> [acc.uniforms EXCEPT ![key] = after]]
             ELSE LET u0 == IF e.state.isSDF THEN SetIsHalo(u, 0) ELSE u
                  IN  [calls |-> Append(acc.calls, DrawEvent(e, u0, 1, u, u0)),
                       uniforms |-> [acc.uniforms EXCEPT ![key] = u0]]

\* the halo flag left set after the halo draw
IssueEntryKeepsHalo(acc, e) ==
    IF e.state.null THEN acc
    ELSE LET key == <<e.state.tile, e.state.kind>>
             u == acc.uniforms[key]
         IN  IF e.state.hasHalo
             THEN LET after == SetIsHalo(u, 1)
                  IN  [calls |-> Append(acc.calls,
                                        DrawEvent(e, SetIsHalo(u, 1), 2, u, after)),
                       uniforms |-> [acc.uniforms EXCEPT ![key] = after]]
             ELSE LET u0 == IF e.state.isSDF THEN SetIsHalo(u, 0) ELSE u
                  IN  [calls |-> Append(acc.calls, DrawEvent(e, u0, 1, u, u0)),
                       uniforms |-> [acc.uniforms EXCEPT ![key] = u0]]

IssueEntry(acc, e) ==
    IF e.state.null THEN acc
    ELSE LET key == <<e.state.tile, e.state.kind>>
             u == acc.uniforms[key]
         IN  IF e.state.hasHalo
             THEN LET after == SetIsHalo(u, 0)
                  IN  [calls |-> Append(acc.calls,
                                        DrawEvent(e, SetIsHalo(u, 1), 2, u, after)),
                       uniforms |-> [acc.uniforms EXCEPT ![key] = after]]
             ELSE LET u0 == IF e.state.isSDF THEN SetIsHalo(u, 0) ELSE u
                  IN  [calls |-> Append(acc.calls, DrawEvent(e, u0, 1, u, u0)),
                       uniforms |-> [acc.uniforms EXCEPT ![key] = u0]]

RECURSIVE IssueEntries(_, _, _)
IssueEntries(acc, list, k) ==
    IF k > Len(list)
    THEN acc
    ELSE IssueEntries(IssueEntry(acc, list[k]), list, k + 1)

StateKeys == Tiles \X {"icon", "text"}

FreshUniforms ==
    [key \in StateKeys |->
        IF key[2] = "icon"
        THEN InitialUniforms([sdfUniforms |->
                 buckets[key[1]].present
                 /\ buckets[key[1]].sdfIcons /\ ~buckets[key[1]].iconsInText])
        ELSE InitialUniforms([sdfUniforms |-> TRUE])]

\* the draw list of one drawLayerSymbols call, in issue order
SortedRenderState(options) ==
    IF SortFeaturesByKey
    THEN SortBySortKey(TileRenderState(Len(coords), options))
    ELSE TileRenderState(Len(coords), options)

\* drawLayerSymbols(..., options): the calls appended to log
DrawLayerSymbols(log, options) ==
    IssueEntries([calls |-> log, uniforms |-> FreshUniforms],
                 SortedRenderState(options), 1).calls

\* ------------------------------------------------ updateVariableAnchors
WritingModeNone == 0
WritingModeHorizontal == 1
WritingModeVertical == 2

\* Math.PI / 2, in degrees
QuarterTurn == 90

Zooms == {0, 1}
\* painter.transform as far as the resolver reads it
Cameras == {c \in [zoom : Zooms, elevation : BOOLEAN] : c.elevation => c.zoom = 1}
DefaultCamera == [zoom |-> 1, elevation |-> FALSE]

\* symbolSize.evaluateSizeForZoom(bucket.textSizeData, tr.zoom): the size is
\* falsy at zoom 0 for zoom-dependent size data
EvaluateSizeForZoom(sizeData, zoom) ==
    IF sizeData = "zoomDependent" THEN zoom ELSE 1

\* one glyph's entry of a dynamic layout vertex array
NoPosition == [symbol |-> 0, offset |-> Absent, zoom |-> 0, elevated |-> FALSE,
               pitchWithMap |-> FALSE, rotateWithMap |-> FALSE,
               space |-> Absent, z |-> "zero"]
HiddenVertex == [hidden |-> TRUE, pos |-> NoPosition, angle |-> 0]
ShiftVertex(shift) == [hidden |-> FALSE, pos |-> shift.pos, angle |-> shift.angle]

GlyphRun(numGlyphs, vertex) == [g \in 1..numGlyphs |-> vertex]

\* symbolProjection.hideGlyphs(numGlyphs, array)
HideGlyphs(numGlyphs, array) == array \o GlyphRun(numGlyphs, HiddenVertex)

\* numGlyphs calls of addDynamicAttributes(array, x, y, z, angle)
AddDynamicAttributes(numGlyphs, array, shift) ==
    array \o GlyphRun(numGlyphs, ShiftVertex(shift))

\* the variable offset that applies to placed text symbol symbol, or Absent
VariableOffsetIgnoringHidden(t, symbol) ==
    IF symbol.crossTileID # 0 THEN variableOffsets[symbol.crossTileID] ELSE Absent

VariableOffsetOf(t, symbol) ==
    LET skipOrientation == /\ buckets[t].allowVerticalPlacement
                           /\ symbol.placedOrientation = WritingModeNone
    IN  IF ~symbol.hidden /\ symbol.crossTileID # 0 /\ ~skipOrientation
        THEN variableOffsets[symbol.crossTileID]
        ELSE Absent

\* {x, y, z, angle} of placed text symbol number s (from 0) of tile t: the
\* projected, shifted anchor as a term over what it is computed from
\* the shift of a placed text symbol is applied in one of two ways: added to
\* the tile anchor, which is then projected (projectTilePoint) and taken
\* through the label plane matrix, or added to the projected position in
\* pixels, after a rotation by -transform.angle if the text rotates with the
\* map, with z = 0
ShiftPlacementRotatesPitched ==
    IF layer.pitchWithMap
    THEN [space |-> "tile", rotated |-> layer.rotateWithMap, z |-> "projected"]
    ELSE [space |-> "pixel", rotated |-> layer.rotateWithMap, z |-> "zero"]

ShiftPlacement ==
    IF layer.pitchWithMap
    THEN [space |-> "tile", rotated |-> FALSE, z |-> "projected"]
    ELSE [space |-> "pixel", rotated |-> layer.rotateWithMap, z |-> "zero"]

\* the angle of a placed text symbol, in degrees: a quarter turn for
\* vertically placed text of a bucket that allows vertical placement
TextAngleIgnoresBucket(t, symbol) ==
    IF symbol.placedOrientation = WritingModeVertical THEN QuarterTurn ELSE 0

TextAngle(t, symbol) ==
    IF /\ buckets[t].allowVerticalPlacement
       /\ symbol.placedOrientation = WritingModeVertical
    THEN QuarterTurn ELSE 0

TextShift(t, s, symbol, variableOffset, camera) ==
    [pos |-> [symbol |-> s + 1, offset |-> variableOffset, zoom |-> camera.zoom,
              elevated |-> camera.elevation,
              pitchWithMap |-> layer.pitchWithMap,
              rotateWithMap |-> ShiftPlacement.rotated,
              space |-> ShiftPlacement.space,
              z |-> ShiftPlacement.z],
     angle |-> TextAngle(t, symbol)]

UpdateTextFitIcon(t) == buckets[t].hasIconTextFit /\ buckets[t].hasIconData

NoShift == [pos |-> NoPosition, angle |-> 0, set |-> FALSE]

\* the loop over placedSymbols after s iterations: the text array and
\* placedTextShifts
RECURSIVE TextPass(_, _, _)
TextPass(t, s, camera) ==
    IF s = 0
    THEN [array |-> <<>>,
          placedTextShifts |-> [i \in 0..(Len(buckets[t].iconPlaced) - 1) |-> NoShift]]
    ELSE LET prev == TextPass(t, s - 1, camera)
             symbol == buckets[t].textPlaced[s]
             variableOffset == VariableOffsetOf(t, symbol)
         IN  IF variableOffset = Absent
             THEN [prev EXCEPT !.array = HideGlyphs(symbol.numGlyphs, @)]
             ELSE LET shift == TextShift(t, s - 1, symbol, variableOffset, camera)
                      i == symbol.associatedIconIndex
                  IN  [array |-> AddDynamicAttributes(symbol.numGlyphs, prev.array, shift),
                       placedTextShifts |->
                           IF UpdateTextFitIcon(t) /\ i >= 0
                              /\ i \in DOMAIN prev.placedTextShifts
                           THEN [prev.placedTextShifts EXCEPT ![i] =
                                    [pos |-> shift.pos, angle |-> shift.angle,
                                     set |-> TRUE]]
                           ELSE prev.placedTextShifts]

\* the loop over placedIcons after n iterations: the icon array
IconShiftedAlways(placedIcon, shift) == TRUE

IconShiftedIgnoringHidden(placedIcon, shift) == shift.set

IconShifted(placedIcon, shift) == ~placedIcon.hidden /\ shift.set

RECURSIVE IconPass(_, _, _)
IconPass(t, n, placedTextShifts) ==
    IF n = 0
    THEN <<>>
    ELSE LET prev == IconPass(t, n - 1, placedTextShifts)
             placedIcon == buckets[t].iconPlaced[n]
             shift == placedTextShifts[n - 1]
         IN  IF IconShifted(placedIcon, shift)
             THEN AddDynamicAttributes(placedIcon.numGlyphs, prev, shift)
             ELSE HideGlyphs(placedIcon.numGlyphs, prev)

UpdateDataEvent(t, buffer) == [op |-> "updateData", tile |-> t, buffer |-> buffer]

\* updateVariableAnchorsForBucket(bucket, ...)
UpdateVariableAnchorsForBucket(st, t, camera) ==
    LET text == TextPass(t, Len(buckets[t].textPlaced), camera)
        icon == IconPass(t, Len(buckets[t].iconPlaced), text.placedTextShifts)
    IN  IF UpdateTextFitIcon(t)
        THEN [st EXCEPT !.dynamicText[t] = text.array,
                        !.dynamicIcon[t] = icon,
                        !.calls = @ \o <<UpdateDataEvent(t, "icon"),
                                         UpdateDataEvent(t, "text")>>]
        ELSE [st EXCEPT !.dynamicText[t] = text.array,
                        !.calls = Append(@, UpdateDataEvent(t, "text"))]

\* the bucket's text buffer is rewritten when its evaluated size is truthy
SizeAllowsUpdate(t, camera) ==
    EvaluateSizeForZoom(buckets[t].textSizeData, camera.zoom) # 0

\* one iteration of the loop over coords in updateVariableAnchors
AnchorsTile(st, t, camera) ==
    IF ~buckets[t].present \/ Len(buckets[t].textSegments) = 0 THEN st
    ELSE IF SizeAllowsUpdate(t, camera)
         THEN UpdateVariableAnchorsForBucket(st, t, camera)
         ELSE st

RECURSIVE UpdateVariableAnchors(_, _, _)
UpdateVariableAnchors(st, k, camera) ==
    IF k = 0
    THEN st
    ELSE AnchorsTile(UpdateVariableAnchors(st, k - 1, camera), coords[k], camera)

\* ----------------------------------------------------------- drawSymbols
AreIconsVisibleAlways == TRUE

AreIconsVisible == layer.iconOpacity # 0
AreTextsVisible == layer.textOpacity # 0

\* one-phase rendering: only when a sort key is provided
UseSinglePassAlways == TRUE

UseSinglePass == layer.hasSortKey /\ (AreIconsVisible \/ AreTextsVisible)

\* the entries tile t pushes onto the draw lists of the frame's
\* drawLayerSymbols calls, in push order
FrameEntries(t) ==
    IF TileSkipped(t) THEN <<>>
    ELSE IF UseSinglePass THEN TileEntries(t, NoOptions)
    ELSE (IF AreIconsVisible THEN TileEntries(t, OnlyIcons) ELSE <<>>)
         \o (IF AreTextsVisible THEN TileEntries(t, OnlyText) ELSE <<>>)

\* drawSymbols drawing before it resolves the variable anchors
DrawSymbolsBodyAnchorsLast(results, camera) ==
    LET st0 == [queries |-> queries, queryCount |-> queryCount,
                occlusionState |-> occlusionState, calls |-> <<>>,
                warned |-> warned, dynamicText |-> dynamicText,
                dynamicIcon |-> dynamicIcon]
        icons == DrawLayerSymbols(<<>>, OnlyIcons)
        texts == DrawLayerSymbols(icons, OnlyText)
    IN  UpdateVariableAnchors([st0 EXCEPT !.calls = texts], Len(coords), camera)

\* the body of drawSymbols in the translucent pass: the calls it issues and
\* the query / occlusion state it leaves; results are the sample counts the
\* GL reports for the queries it reads
DrawSymbolsBody(results, camera) ==
    LET st0 == [queries |-> queries, queryCount |-> queryCount,
                occlusionState |-> occlusionState, calls |-> <<>>,
                warned |-> warned, dynamicText |-> dynamicText,
                dynamicIcon |-> dynamicIcon]
        st1 == IF layer.variablePlacement
               THEN UpdateVariableAnchors(st0, Len(coords), camera)
               ELSE st0
    IN  IF UseSinglePass
        THEN [st1 EXCEPT !.calls = DrawLayerSymbols(st1.calls, NoOptions)]
        ELSE LET icons == IF AreIconsVisible
                          THEN DrawLayerSymbols(st1.calls, OnlyIcons) ELSE st1.calls
                 texts == IF AreTextsVisible
                          THEN DrawLayerSymbols(icons, OnlyText) ELSE icons
             IN  DrawOcclusions([st1 EXCEPT !.calls = texts], results)

\* drawSymbols running its body in every render pass
DrawSymbolsAnyPass(pass, results, camera) ==
    /\ renderPass' = pass
    /\ LET r == DrawSymbolsBody(results, camera)
       IN  /\ queries' = r.queries
           /\ queryCount' = r.queryCount
           /\ occlusionState' = r.occlusionState
           /\ calls' = r.calls
           /\ warned' = r.warned
           /\ dynamicText' = r.dynamicText
           /\ dynamicIcon' = r.dynamicIcon
           /\ frameCounter' = IF pass = "translucent"
                              THEN (frameCounter + 1) % FrameCounterWrap
                              ELSE frameCounter
    /\ UNCHANGED <<symbolParams, layer, projectionName, coords, buckets, opacities,
                   variableOffsets, view, texture>>

\* one call of drawSymbols; the painter advances its frame counter after the
\* translucent pass, the last pass of a frame
DrawSymbols(pass, results, camera) ==
    /\ renderPass' = pass
    /\ IF pass # "translucent"
       THEN /\ calls' = <<>>
            /\ UNCHANGED <<frameCounter, queries, queryCount, occlusionState,
                           warned, dynamicText, dynamicIcon>>
       ELSE LET r == DrawSymbolsBody(results, camera)
            IN  /\ queries' = r.queries
                /\ queryCount' = r.queryCount
                /\ occlusionState' = r.occlusionState
                /\ calls' = r.calls
                /\ warned' = r.warned
                /\ dynamicText' = r.dynamicText
                /\ dynamicIcon' = r.dynamicIcon
                /\ frameCounter' = (frameCounter + 1) % FrameCounterWrap
    /\ UNCHANGED <<symbolParams, layer, projectionName, coords, buckets, opacities,
                   variableOffsets, view, texture>>

\* the queries whose result the GL reports as available
AvailableQueries ==
    {p \in Tiles \X Instances : IsResultAvailable(queries[p[1]][p[2]])}

\* a frame's drawSymbols call in render pass pass
RenderFrame(pass) ==
    \E results \in [AvailableQueries -> 0..MaxSamples],
       camera \in (IF layer.variablePlacement THEN Cameras ELSE {DefaultCamera}) :
        DrawSymbols(pass, results, camera)

\* ----------------------------------------------------------- environment
\* the GPU finishes a query that was issued: its result becomes available
GpuCompletes(t, i) ==
    /\ queries[t][i] = "pending"
    /\ queries' = [queries EXCEPT ![t][i] = "available"]
    /\ calls' = <<>>
    /\ UNCHANGED <<frameCounter, renderPass, symbolParams, layer, projectionName,
                   coords, buckets, opacities, queryCount, occlusionState,
                   warned, variableOffsets, dynamicText, dynamicIcon,
                   view, texture>>

\* the symbol instances of the buckets
SymbolInstances ==
    {p \in Tiles \X Instances :
        buckets[p[1]].present /\ p[2] < buckets[p[1]].numInstances}

\* the placement subsystem commits a placement: every symbol instance has an
\* opacity entry from then on, and the hidden flag of instance p has changed
PlacementCommit(p) ==
    /\ p \in SymbolInstances
    /\ opacities' = [t \in Tiles |-> [i \in Instances |->
                        IF <<t, i>> \notin SymbolInstances THEN opacities[t][i]
                        ELSE IF <<t, i>> = p
                             THEN IF opacities[t][i] = "hidden"
                                  THEN "shown" ELSE "hidden"
                             ELSE IF opacities[t][i] = "hidden"
                                  THEN "hidden" ELSE "shown"]]
    /\ calls' = <<>>
    /\ UNCHANGED <<frameCounter, renderPass, symbolParams, layer, projectionName,
                   coords, buckets, queries, queryCount, occlusionState,
                   warned, variableOffsets, dynamicText, dynamicIcon,
                   view, texture>>

\* the host switches painter.symbolParams.useOcclusionQueries
ToggleOcclusionQueries ==
    /\ symbolParams' = [symbolParams EXCEPT !.useOcclusionQueries = ~@]
    /\ calls' = <<>>
    /\ UNCHANGED <<frameCounter, renderPass, layer, projectionName, coords,
                   buckets, opacities, queries, queryCount, occlusionState,
                   warned, variableOffsets, dynamicText, dynamicIcon,
                   view, texture>>

\* the camera starts or stops rotating or zooming, or changes its pitch
CameraMoves(v) ==
    /\ v # view
    /\ view' = v
    /\ calls' = <<>>
    /\ UNCHANGED <<frameCounter, renderPass, symbolParams, layer, projectionName,
                   coords, buckets, opacities, queries, queryCount, occlusionState,
                   warned, variableOffsets, dynamicText, dynamicIcon, texture>>

\* ------------------------------------------------------------ the buckets
SegmentLists == SeqsUpTo(1..MaxSortKey, MaxSegments)

Bucket(projection, fullyClipped, numInstances, canOverlap, sdfIcons, iconSegments, textSegments) ==
    [present |-> TRUE, projection |-> projection, fullyClipped |-> fullyClipped,
     numInstances |-> numInstances, canOverlap |-> canOverlap,
     sdfIcons |-> sdfIcons, iconsInText |-> FALSE,
     iconSegments |-> iconSegments, textSegments |-> textSegments,
     imageAtlasTexture |-> TRUE, glyphAtlasTexture |-> TRUE,
     iconsNeedLinear |-> FALSE,
     textSizeData |-> "constant", allowVerticalPlacement |-> FALSE,
     hasIconTextFit |-> FALSE, hasIconData |-> Len(iconSegments) # 0,
     textPlaced |-> <<>>, iconPlaced |-> <<>>]

Layer(hasSortKey, iconOpacity, textOpacity, iconHaloWidth, textHaloWidth, hasInitialOcclusionOpacityProperties, occlusionOpacity) ==
    [hasSortKey |-> hasSortKey, iconOpacity |-> iconOpacity,
     textOpacity |-> textOpacity, iconHaloWidth |-> iconHaloWidth,
     textHaloWidth |-> textHaloWidth,
     hasInitialOcclusionOpacityProperties |-> hasInitialOcclusionOpacityProperties,
     iconOcclusionOpacity |-> occlusionOpacity,
     textOcclusionOpacity |-> occlusionOpacity,
     variablePlacement |-> FALSE, rotateWithMap |-> FALSE, pitchWithMap |-> FALSE,
     iconPitchWithMap |-> FALSE, iconSize |-> 1]

\* the map is at rest and seen from above
StaticView == [rotating |-> FALSE, zooming |-> FALSE, pitch |-> 0]
Views == [rotating : BOOLEAN, zooming : BOOLEAN, pitch : {0, 1}]

\* no Texture object has been constructed
NoTexture == [constructed |-> FALSE]
\* a parameter of the GL texture object that texParameteri has not set
GlDefault == "default"

\* ------------------------------------------- Texture (render/texture.ts)
TextureFormats == {"RGBA", "DEPTH_COMPONENT", "R8", "R32F", "RED"}
DomImageKinds == {"HTMLImageElement", "HTMLCanvasElement", "HTMLVideoElement",
                  "ImageData", "ImageBitmap"}
DataImageKinds == {"RGBAImage", "AlphaImage", "Float32Image", "EmptyImage"}
\* the images the texture actions are given
ImageKinds == {"HTMLImageElement", "ImageBitmap"} \cup DataImageKinds
TextureImages == [kind : ImageKinds, width : 1..MaxImageSize, height : {1}]
NullOptions == [null |-> TRUE, premultiply |-> TRUE, useMipmap |-> FALSE]
TextureOptions ==
    {NullOptions} \cup [null : {FALSE}, premultiply : BOOLEAN, useMipmap : BOOLEAN]
NoTexturePosition == [given |-> FALSE, x |-> 0, y |-> 0]
TexturePositions == {NoTexturePosition, [given |-> TRUE, x |-> 0, y |-> 0]}
TextureFilters == {"LINEAR", "NEAREST"}
TextureWraps == {"CLAMP_TO_EDGE", "REPEAT"}

\* the image is an HTMLImageElement, HTMLCanvasElement, HTMLVideoElement,
\* ImageData or ImageBitmap
IsDomImage(image) == image.kind \in DomImageKinds

\* assert(image instanceof Float32Image)
IsFloat32Image(image) == image.kind = "Float32Image"

UpdateEvent(tex, image) == [op |-> "update", image |-> image.kind, format |-> tex.format]
UploadEvent(name, internalFormat, format, type, image) ==
    [op |-> name, internalFormat |-> internalFormat, format |-> format,
     type |-> type, source |-> image.kind,
     width |-> image.width, height |-> image.height]
AssertionEvent == [op |-> "assert"]

\* the calls of update() up to and with the upload, or up to the failed
\* assertion
TextureUpload(tex, image, position, resize) ==
    IF resize
    THEN IF IsDomImage(image)
         THEN <<UploadEvent("texImage2D", tex.format,
                            IF tex.format = "R8" THEN "RED" ELSE tex.format,
                            "UNSIGNED_BYTE", image)>>
         ELSE IF tex.format = "R32F" /\ ~IsFloat32Image(image)
              THEN <<AssertionEvent>>
              ELSE <<UploadEvent("texImage2D",
                                 IF tex.format = "DEPTH_COMPONENT"
                                 THEN "DEPTH_COMPONENT16" ELSE tex.format,
                                 IF tex.format \in {"R8", "R32F"}
                                 THEN "RED" ELSE tex.format,
                                 IF tex.format = "R32F" THEN "FLOAT"
                                 ELSE IF tex.format = "DEPTH_COMPONENT"
                                      THEN "UNSIGNED_SHORT" ELSE "UNSIGNED_BYTE",
                                 image)>>
    ELSE IF IsDomImage(image)
         THEN <<UploadEvent("texSubImage2D", tex.format, "RGBA",
                            "UNSIGNED_BYTE", image)>>
         ELSE IF tex.format = "R32F" /\ ~IsFloat32Image(image)
              THEN <<AssertionEvent>>
              ELSE <<UploadEvent("texSubImage2D", tex.format,
                                 IF tex.format = "R32F" THEN "RED" ELSE tex.format,
                                 IF tex.format = "R32F" THEN "FLOAT"
                                 ELSE "UNSIGNED_BYTE",
                                 image)>>

\* Texture.update(image, options, position): the texture it leaves, the calls
\* it issues and whether it was left by a failed assertion
TextureUpdate(tex, image, options, position) ==
    LET resize == /\ ~position.given
                  /\ tex.size # <<image.width, image.height>>
        sized == IF resize
                 THEN [tex EXCEPT !.size = <<image.width, image.height>>]
                 ELSE tex
        prefix == <<UpdateEvent(tex, image),
                    [op |-> "bindTexture"],
                    [op |-> "pixelStore",
                     premultiplyAlpha |-> /\ tex.format = "RGBA"
                                          /\ (options.null \/ options.premultiply)]>>
        upload == TextureUpload(tex, image, position, resize)
        useMipmap == ~options.null /\ options.useMipmap
    IN  IF upload = <<AssertionEvent>>
        THEN [texture |-> sized, calls |-> prefix \o upload, failed |-> TRUE]
        ELSE [texture |-> [sized EXCEPT !.useMipmap = useMipmap],
              calls |-> prefix \o upload
                        \o (IF useMipmap THEN <<[op |-> "generateMipmap"]>> ELSE <<>>),
              failed |-> FALSE]

\* the minification filter texParameteri is given for filter on a texture
\* with mipmaps
MipmapFilter(filter) ==
    IF filter = "NEAREST" THEN "NEAREST_MIPMAP_NEAREST" ELSE "LINEAR_MIPMAP_LINEAR"

BindEvent(filter, wrap, ignoreMipMap) ==
    [op |-> "bind", filter |-> filter, wrap |-> wrap, ignoreMipMap |-> ignoreMipMap]
BindExtraParamEvent(minFilter, magFilter, wrapS, wrapT) ==
    [op |-> "bindExtraParam", minFilter |-> minFilter, magFilter |-> magFilter,
     wrapS |-> wrapS, wrapT |-> wrapT]
TexParameterEvent(pname, param) ==
    [op |-> "texParameteri", pname |-> pname, param |-> param]

\* Texture.bind(filter, wrap, ignoreMipMap); glMagFilter, glMinFilter, glWrapS
\* and glWrapT are the parameters of the GL texture object
TextureBind(tex, filter, wrap, ignoreMipMap) ==
    LET minFilter == IF tex.useMipmap /\ ~ignoreMipMap
                     THEN MipmapFilter(filter)
                     ELSE filter
        setFilter == filter # tex.minFilter
        setWrap == wrap # tex.wrapS
    IN  [texture |-> [tex EXCEPT !.minFilter = filter,
                                 !.wrapS = wrap,
                                 !.glMagFilter = IF setFilter THEN filter ELSE @,
                                 !.glMinFilter = IF setFilter THEN minFilter ELSE @,
                                 !.glWrapS = IF setWrap THEN wrap ELSE @,
                                 !.glWrapT = IF setWrap THEN wrap ELSE @],
         calls |-> <<BindEvent(filter, wrap, ignoreMipMap), [op |-> "bindTexture"]>>
                   \o (IF setFilter
                       THEN <<TexParameterEvent("TEXTURE_MAG_FILTER", filter),
                              TexParameterEvent("TEXTURE_MIN_FILTER", minFilter)>>
                       ELSE <<>>)
                   \o (IF setWrap
                       THEN <<TexParameterEvent("TEXTURE_WRAP_S", wrap),
                              TexParameterEvent("TEXTURE_WRAP_T", wrap)>>
                       ELSE <<>>)]

\* Texture.bindExtraParam(minFilter, magFilter, wrapS, wrapT)
TextureBindExtraParam(tex, minFilter, magFilter, wrapS, wrapT) ==
    LET glMin == IF tex.useMipmap THEN MipmapFilter(minFilter) ELSE minFilter
        setMag == magFilter # tex.magFilter
        setMin == minFilter # tex.minFilter
        setS == wrapS # tex.wrapS
        setT == wrapT # tex.wrapT
    IN  [texture |-> [tex EXCEPT !.magFilter = magFilter,
                                 !.minFilter = minFilter,
                                 !.wrapS = wrapS,
                                 !.wrapT = wrapT,
                                 !.glMagFilter = IF setMag THEN magFilter ELSE @,
                                 !.glMinFilter = IF setMin THEN glMin ELSE @,
                                 !.glWrapS = IF setS THEN wrapS ELSE @,
                                 !.glWrapT = IF setT THEN wrapT ELSE @],
         calls |-> <<BindExtraParamEvent(minFilter, magFilter, wrapS, wrapT),
                     [op |-> "bindTexture"]>>
                   \o (IF setMag
                       THEN <<TexParameterEvent("TEXTURE_MAG_FILTER", magFilter)>>
                       ELSE <<>>)
                   \o (IF setMin
                       THEN <<TexParameterEvent("TEXTURE_MIN_FILTER", glMin)>>
                       ELSE <<>>)
                   \o (IF setS
                       THEN <<TexParameterEvent("TEXTURE_WRAP_S", wrapS)>>
                       ELSE <<>>)
                   \o (IF setT
                       THEN <<TexParameterEvent("TEXTURE_WRAP_T", wrapT)>>
                       ELSE <<>>)]

\* what the texture actions leave alone
SymbolsUnchanged ==
    UNCHANGED <<frameCounter, renderPass, symbolParams, layer, projectionName,
                coords, buckets, opacities, queries, queryCount, occlusionState,
                warned, variableOffsets, dynamicText, dynamicIcon, view>>

\* new Texture(context, image, format, options); a failed assertion leaves
\* the constructor without a Texture object
NewTexture(format, image, options) ==
    LET fresh == [constructed |-> TRUE, handle |-> TRUE, format |-> format,
                  size |-> <<>>, useMipmap |-> FALSE,
                  minFilter |-> Absent, magFilter |-> Absent,
                  wrapS |-> Absent, wrapT |-> Absent,
                  glMinFilter |-> GlDefault, glMagFilter |-> GlDefault,
                  glWrapS |-> GlDefault, glWrapT |-> GlDefault]
        r == TextureUpdate(fresh, image, options, NoTexturePosition)
    IN  /\ texture' = IF r.failed THEN texture ELSE r.texture
        /\ calls' = <<[op |-> "createTexture"]>> \o r.calls
        /\ SymbolsUnchanged

\* texture.update(image, options, position)
UpdateTexture(image, options, position) ==
    /\ texture.constructed
    /\ LET r == TextureUpdate(texture, image, options, position)
       IN  /\ texture' = r.texture
           /\ calls' = r.calls
    /\ SymbolsUnchanged

\* texture.bind(filter, wrap, ignoreMipMap)
BindTexture(filter, wrap, ignoreMipMap) ==
    /\ texture.constructed
    /\ LET r == TextureBind(texture, filter, wrap, ignoreMipMap)
       IN  /\ texture' = r.texture
           /\ calls' = r.calls
    /\ SymbolsUnchanged

\* texture.bindExtraParam(minFilter, magFilter, wrapS, wrapT)
BindExtraParamTexture(minFilter, magFilter, wrapS, wrapT) ==
    /\ texture.constructed
    /\ LET r == TextureBindExtraParam(texture, minFilter, magFilter, wrapS, wrapT)
       IN  /\ texture' = r.texture
           /\ calls' = r.calls
    /\ SymbolsUnchanged

\* texture.destroy()
DestroyTexture ==
    /\ texture.constructed
    /\ texture.handle
    /\ texture' = [texture EXCEPT !.handle = FALSE]
    /\ calls' = <<[op |-> "deleteTexture"]>>
    /\ SymbolsUnchanged

\* no variable offsets and empty dynamic layout vertex arrays
InitNoAnchors ==
    /\ variableOffsets = [c \in CrossTileIDs |-> Absent]
    /\ dynamicText = [t \in Tiles |-> <<>>]
    /\ dynamicIcon = [t \in Tiles |-> <<>>]

InitCommon ==
    /\ frameCounter = 0
    /\ renderPass = "opaque"
    /\ coords = [k \in 1..NumTiles |-> k]
    /\ opacities = [t \in Tiles |-> [i \in Instances |-> Absent]]
    /\ queries = [t \in Tiles |-> [i \in Instances |-> NoQuery]]
    /\ queryCount = [t \in Tiles |-> [i \in Instances |-> 0]]
    /\ calls = <<>>
    /\ warned = FALSE
    /\ view = StaticView
    /\ texture = NoTexture

\* ---------------------------------------------- the occlusion tracker
\* a mercator scene whose layer has occlusion-driven opacity, drawn in two
\* passes or (with a sort key) in one; either one bucket with MaxInstances
\* instances, or one instance in each of the first two tiles' buckets; every
\* instance starts visible and without a placement opacity entry
InitOcc ==
    /\ InitCommon
    /\ InitNoAnchors
    /\ symbolParams \in [useOcclusionQueries : {TRUE},
                         visualizeOcclusions : VisualizeModes,
                         occlusionQueryFrameWindow : 1..MaxWindow]
    /\ \E hasSortKey \in BOOLEAN :
          layer = Layer(hasSortKey, 1, 1, 0, 1, TRUE, 0)
    /\ projectionName = "mercator"
    /\ \E single \in BOOLEAN :
          buckets = [t \in Tiles |->
                        IF single
                        THEN IF t = 1
                             THEN Bucket("mercator", FALSE, MaxInstances,
                                         FALSE, FALSE, <<1>>, <<1>>)
                             ELSE NoBucket
                        ELSE IF t <= 2
                             THEN Bucket("mercator", FALSE, 1,
                                         FALSE, FALSE, <<1>>, <<1>>)
                             ELSE NoBucket]
    /\ occlusionState = [t \in Tiles |-> [i \in Instances |-> OcclusionStateOne]]

NextOcc ==
    \/ RenderFrame("translucent")
    \/ \E t \in Tiles, i \in Instances : GpuCompletes(t, i)
    \/ \E p \in Tiles \X Instances : PlacementCommit(p)

SpecOcc == InitOcc /\ [][NextOcc]_vars

\* layers with and without occlusion-driven opacity, occlusion queries
\* switched on or off at any time; one bucket with MaxInstances instances
InitEligibility ==
    /\ InitCommon
    /\ InitNoAnchors
    /\ symbolParams \in [useOcclusionQueries : BOOLEAN,
                         visualizeOcclusions : {"none"},
                         occlusionQueryFrameWindow : {MaxWindow}]
    /\ \E hasSortKey \in BOOLEAN, hasInitial \in BOOLEAN,
          iconOcclusionOpacity \in 0..1, textOcclusionOpacity \in 0..1 :
          layer = [Layer(hasSortKey, 1, 1, 0, 1, hasInitial, 0)
                      EXCEPT !.iconOcclusionOpacity = iconOcclusionOpacity,
                             !.textOcclusionOpacity = textOcclusionOpacity]
    /\ projectionName = "mercator"
    /\ buckets = [t \in Tiles |->
                     IF t = 1
                     THEN Bucket("mercator", FALSE, MaxInstances,
                                 FALSE, FALSE, <<1>>, <<1>>)
                     ELSE NoBucket]
    /\ occlusionState = [t \in Tiles |-> [i \in Instances |-> OcclusionStateOne]]

NextEligibility ==
    \/ RenderFrame("translucent")
    \/ \E t \in Tiles, i \in Instances : GpuCompletes(t, i)
    \/ ToggleOcclusionQueries

SpecEligibility == InitEligibility /\ [][NextEligibility]_vars

\* the occlusion tracker where the scene or a bucket is in globe projection:
\* the first tile's bucket is built for mercator or for globe and may be fully
\* clipped, the other buckets are built for mercator
InitGlobe ==
    /\ InitCommon
    /\ InitNoAnchors
    /\ symbolParams \in [useOcclusionQueries : {TRUE},
                         visualizeOcclusions : {"none"},
                         occlusionQueryFrameWindow : 1..MaxWindow]
    /\ layer = Layer(FALSE, 1, 1, 0, 1, TRUE, 0)
    /\ projectionName \in {"mercator", "globe"}
    /\ \E projection \in {"mercator", "globe"}, fullyClipped \in BOOLEAN,
          both \in BOOLEAN :
          buckets = [t \in Tiles |->
                        IF t = 1
                        THEN Bucket(projection, fullyClipped, 1,
                                    FALSE, FALSE, <<1>>, <<1>>)
                        ELSE IF t = 2
                             THEN Bucket(IF both THEN projection ELSE "mercator",
                                         FALSE, 1, FALSE, FALSE, <<1>>, <<1>>)
                             ELSE NoBucket]
    /\ occlusionState = [t \in Tiles |-> [i \in Instances |-> OcclusionStateOne]]

SpecGlobe == InitGlobe /\ [][NextOcc]_vars

\* --------------------------------------------- the variable anchor resolver
\* the placement subsystem supplies or withdraws the offset of a cross-tile ID
PlacementSetsOffset(c) ==
    /\ variableOffsets' = [variableOffsets EXCEPT ![c] =
                              IF @ = Absent THEN "offset" ELSE Absent]
    /\ calls' = <<>>
    /\ UNCHANGED <<frameCounter, renderPass, symbolParams, layer, projectionName,
                   coords, buckets, opacities, queries, queryCount, occlusionState,
                   warned, dynamicText, dynamicIcon, view, texture>>

\* placed symbol number k of a placedSymbolArray, shown and placed horizontally
PlainText(k) ==
    [numGlyphs |-> ((k - 1) % MaxGlyphs) + 1, hidden |-> FALSE,
     crossTileID |-> ((k - 1) % MaxCrossTileID) + 1,
     placedOrientation |-> WritingModeHorizontal, associatedIconIndex |-> -1]

PlainIcon(k) == [numGlyphs |-> ((k - 1) % MaxGlyphs) + 1, hidden |-> FALSE]

PlainBucket ==
    [Bucket("mercator", FALSE, 1, FALSE, FALSE, <<1>>, <<1>>)
        EXCEPT !.textPlaced = <<PlainText(1)>>, !.iconPlaced = <<PlainIcon(1)>>]

\* a layer with variable placement over buckets with placed symbols.  In the
\* first tile's bucket either one placed text symbol varies (hidden flag,
\* cross-tile ID, orientation), or icon-text-fit is active and the text
\* symbols' icon indices and one hidden flag per array vary (screen-aligned
\* text only), or the text size is zoom-dependent; the other tiles hold one
\* shown symbol each
InitAnchors ==
    /\ InitCommon
    /\ InitNoAnchors
    /\ symbolParams = [useOcclusionQueries |-> FALSE, visualizeOcclusions |-> "none",
                       occlusionQueryFrameWindow |-> 1]
    /\ projectionName = "mercator"
    /\ occlusionState = [t \in Tiles |-> [i \in Instances |-> OcclusionStateOne]]
    /\ \E pitchWithMap \in BOOLEAN :
          layer = [Layer(FALSE, 1, 1, 0, 1, FALSE, 0)
                      EXCEPT !.variablePlacement = TRUE,
                             !.pitchWithMap = pitchWithMap]
    /\ \E first \in
            {[PlainBucket EXCEPT
                 !.allowVerticalPlacement = allowVertical,
                 !.textPlaced = [k \in 1..MaxPlaced |->
                                    IF k = odd
                                    THEN [PlainText(k) EXCEPT
                                             !.hidden = hidden,
                                             !.crossTileID = crossTileID,
                                             !.placedOrientation = orientation]
                                    ELSE PlainText(k)]] :
                allowVertical \in BOOLEAN, odd \in 1..MaxPlaced, hidden \in BOOLEAN,
                crossTileID \in 0..MaxCrossTileID,
                orientation \in {WritingModeNone, WritingModeHorizontal,
                                 WritingModeVertical}}
            \cup
            {[PlainBucket EXCEPT
                 !.hasIconTextFit = TRUE,
                 !.iconPlaced = [k \in 1..MaxPlaced |->
                                    [PlainIcon(k) EXCEPT !.hidden = (k = hiddenIcon)]],
                 !.textPlaced = [k \in 1..MaxPlaced |->
                                    [PlainText(k) EXCEPT
                                        !.hidden = (k = hiddenText),
                                        !.associatedIconIndex = iconIndex[k]]]] :
                hiddenIcon \in 0..1, hiddenText \in 0..MaxPlaced,
                iconIndex \in {f \in [1..MaxPlaced -> -1..(MaxPlaced - 1)] :
                                  \A k \in 1..MaxPlaced : f[k] \in {-1, 0, k - 1}}}
            \cup
            {[PlainBucket EXCEPT !.textSizeData = "zoomDependent",
                                 !.textSegments = textSegments] :
                textSegments \in {<<>>, <<1>>}} :
          /\ (layer.pitchWithMap => ~first.hasIconTextFit)
          /\ buckets = [t \in Tiles |-> IF t = 1 THEN first ELSE PlainBucket]

\* a layer with variable placement under every combination of text pitch and
\* rotation alignment; the first tile's bucket may allow vertical placement,
\* its first placed symbol having any orientation
InitAlign ==
    /\ InitCommon
    /\ InitNoAnchors
    /\ symbolParams = [useOcclusionQueries |-> FALSE, visualizeOcclusions |-> "none",
                       occlusionQueryFrameWindow |-> 1]
    /\ projectionName = "mercator"
    /\ occlusionState = [t \in Tiles |-> [i \in Instances |-> OcclusionStateOne]]
    /\ \E pitchWithMap \in BOOLEAN, rotateWithMap \in BOOLEAN :
          layer = [Layer(FALSE, 1, 1, 0, 1, FALSE, 0)
                      EXCEPT !.variablePlacement = TRUE,
                             !.pitchWithMap = pitchWithMap,
                             !.rotateWithMap = rotateWithMap]
    /\ \E allowVertical \in BOOLEAN,
          orientation \in {WritingModeNone, WritingModeHorizontal,
                           WritingModeVertical} :
          buckets = [t \in Tiles |->
                        IF t = 1
                        THEN [PlainBucket EXCEPT
                                 !.allowVerticalPlacement = allowVertical,
                                 !.textPlaced = <<[PlainText(1) EXCEPT
                                                     !.placedOrientation = orientation]>>]
                        ELSE PlainBucket]

NextAnchors ==
    \/ RenderFrame("translucent")
    \/ \E c \in CrossTileIDs : PlacementSetsOffset(c)

SpecAnchors == InitAnchors /\ [][NextAnchors]_vars

SpecAlign == InitAlign /\ [][NextAnchors]_vars

\* a frame has been rendered: the only step that moves the frame counter is
\* the drawSymbols call of the translucent pass
FrameRendered == frameCounter' = (frameCounter + 1) % FrameCounterWrap

\* frames keep being rendered and the GPU finishes every query it was given
FairSpecOcc ==
    /\ SpecOcc
    /\ WF_frameCounter(FrameRendered)
    /\ \A t \in Tiles, i \in Instances : WF_vars(GpuCompletes(t, i))

\* ------------------------------------------------------ the draw batcher
\* layers without occlusion-driven opacity.  Either the layer's flags vary
\* over buckets that all hold an icon segment (key MaxSortKey) and a text
\* segment (key 1), or the segment lists of the first two tiles' buckets vary
\* (a tile may have no bucket) under a layer with both kinds visible, or the
\* scene's projection and the first tile's projection, clipping and atlas
\* textures vary
InitDraw ==
    /\ InitCommon
    /\ InitNoAnchors
    /\ symbolParams = [useOcclusionQueries |-> TRUE, visualizeOcclusions |-> "none",
                       occlusionQueryFrameWindow |-> MaxWindow]
    /\ occlusionState = [t \in Tiles |-> [i \in Instances |-> OcclusionStateOne]]
    /\ \/ \E hasSortKey \in BOOLEAN, iconOpacity \in 0..1, textOpacity \in 0..1,
             iconHaloWidth \in 0..1, textHaloWidth \in 0..1,
             canOverlap \in BOOLEAN, sdfIcons \in BOOLEAN :
             /\ projectionName = "mercator"
             /\ layer = Layer(hasSortKey, iconOpacity, textOpacity,
                              iconHaloWidth, textHaloWidth, FALSE, 0)
             /\ buckets = [t \in Tiles |->
                              Bucket("mercator", FALSE, 1, canOverlap, sdfIcons,
                                     <<MaxSortKey>>, <<1>>)]
       \/ \E hasSortKey \in BOOLEAN,
             lists \in [{1, 2} \X {"icon", "text"} -> SegmentLists],
             missing \in {0, 1, 2} :
             /\ projectionName = "mercator"
             /\ layer = Layer(hasSortKey, 1, 1, 0, 1, FALSE, 0)
             /\ buckets = [t \in Tiles |->
                              IF t = missing THEN NoBucket
                              ELSE IF t <= 2
                                   THEN Bucket("mercator", FALSE, 1, TRUE, FALSE,
                                               lists[<<t, "icon">>],
                                               lists[<<t, "text">>])
                                   ELSE Bucket("mercator", FALSE, 1, TRUE, FALSE,
                                               <<1>>, <<1>>)]
       \/ \E hasSortKey \in BOOLEAN, canOverlap \in BOOLEAN,
             scene \in {"mercator", "globe"}, projection \in {"mercator", "globe"},
             fullyClipped \in BOOLEAN, imageAtlas \in BOOLEAN, glyphAtlas \in BOOLEAN :
             /\ projectionName = scene
             /\ layer = Layer(hasSortKey, 1, 1, 0, 1, FALSE, 0)
             /\ buckets = [t \in Tiles |->
                              IF t = 1
                              THEN [Bucket(projection, fullyClipped, 1, canOverlap,
                                           FALSE, <<1>>, <<1>>)
                                       EXCEPT !.imageAtlasTexture = imageAtlas,
                                              !.glyphAtlasTexture = glyphAtlas]
                              ELSE Bucket(scene, FALSE, 1, canOverlap, FALSE,
                                          <<1>>, <<1>>)]

NextDraw == RenderFrame("translucent")

\* the draw batcher over buffers of several segments: the first tile's bucket
\* holds up to MaxSegments + 1 icon segments and up to MaxSegments text
\* segments with any sort keys, the other tiles one segment of each kind; its
\* icons are plain or SDF icons, with a halo or none
InitSegments ==
    /\ InitCommon
    /\ InitNoAnchors
    /\ symbolParams = [useOcclusionQueries |-> TRUE, visualizeOcclusions |-> "none",
                       occlusionQueryFrameWindow |-> MaxWindow]
    /\ occlusionState = [t \in Tiles |-> [i \in Instances |-> OcclusionStateOne]]
    /\ projectionName = "mercator"
    /\ \E hasSortKey \in BOOLEAN, iconOpacity \in 0..1, textOpacity \in 0..1,
          iconHaloWidth \in 0..1 :
          layer = Layer(hasSortKey, iconOpacity, textOpacity, iconHaloWidth, 1,
                        FALSE, 0)
    /\ \E canOverlap \in BOOLEAN, sdfIcons \in BOOLEAN,
          iconSegments \in SeqsUpTo(1..MaxSortKey, MaxSegments + 1),
          textSegments \in SegmentLists :
          buckets = [t \in Tiles |->
                        IF t = 1
                        THEN Bucket("mercator", FALSE, 1, canOverlap, sdfIcons,
                                    iconSegments, textSegments)
                        ELSE Bucket("mercator", FALSE, 1, canOverlap, FALSE,
                                    <<1>>, <<1>>)]

SpecSegments == InitSegments /\ [][NextDraw]_vars

\* the atlas filtering of the render states: the layer's icon and text pitch
\* alignment and icon size vary, and so do the first tile's bucket (SDF
\* icons, icons in text, icons that need linear filtering, zoom-dependent
\* text size) and, over time, the camera
InitAtlas ==
    /\ InitCommon
    /\ InitNoAnchors
    /\ symbolParams = [useOcclusionQueries |-> FALSE, visualizeOcclusions |-> "none",
                       occlusionQueryFrameWindow |-> 1]
    /\ occlusionState = [t \in Tiles |-> [i \in Instances |-> OcclusionStateOne]]
    /\ projectionName = "mercator"
    /\ \E iconPitchWithMap \in BOOLEAN, textPitchWithMap \in BOOLEAN,
          iconSize \in 1..2 :
          layer = [Layer(FALSE, 1, 1, 0, 1, FALSE, 0)
                      EXCEPT !.iconPitchWithMap = iconPitchWithMap,
                             !.pitchWithMap = textPitchWithMap,
                             !.iconSize = iconSize]
    /\ \E sdfIcons \in BOOLEAN, iconsInText \in BOOLEAN,
          iconsNeedLinear \in BOOLEAN,
          textSizeData \in {"constant", "zoomDependent"} :
          buckets = [t \in Tiles |->
                        IF t = 1
                        THEN [Bucket("mercator", FALSE, 1, FALSE, sdfIcons,
                                     <<1>>, <<1>>)
                                 EXCEPT !.iconsInText = iconsInText,
                                        !.iconsNeedLinear = iconsNeedLinear,
                                        !.textSizeData = textSizeData]
                        ELSE NoBucket]

NextAtlas ==
    \/ RenderFrame("translucent")
    \/ \E v \in Views : CameraMoves(v)

SpecAtlas == InitAtlas /\ [][NextAtlas]_vars

\* ------------------------------------------------------------ textures
\* no symbol layer is drawn; textures are constructed, updated, bound and
\* destroyed
InitTexture ==
    /\ InitCommon
    /\ InitNoAnchors
    /\ symbolParams = [useOcclusionQueries |-> FALSE, visualizeOcclusions |-> "none",
                       occlusionQueryFrameWindow |-> 1]
    /\ layer = Layer(FALSE, 1, 1, 0, 1, FALSE, 0)
    /\ projectionName = "mercator"
    /\ buckets = [t \in Tiles |-> NoBucket]
    /\ occlusionState = [t \in Tiles |-> [i \in Instances |-> OcclusionStateOne]]

NextTexture ==
    \/ \E format \in TextureFormats, image \in TextureImages,
          options \in TextureOptions : NewTexture(format, image, options)
    \/ \E image \in TextureImages, options \in TextureOptions,
          position \in TexturePositions : UpdateTexture(image, options, position)
    \/ \E filter \in TextureFilters, wrap \in TextureWraps,
          ignoreMipMap \in BOOLEAN : BindTexture(filter, wrap, ignoreMipMap)
    \/ DestroyTexture

SpecTexture == InitTexture /\ [][NextTexture]_vars

\* the filter and wrap parameters of one RGBA texture: it is constructed from
\* and updated with a 1 x 1 RGBAImage, with or without mipmaps, and bound with
\* bind and bindExtraParam
ParamImage == [kind |-> "RGBAImage", width |-> 1, height |-> 1]
ParamOptions == {o \in TextureOptions : o.null \/ o.premultiply}

NextTextureParams ==
    \/ \E options \in ParamOptions : NewTexture("RGBA", ParamImage, options)
    \/ \E options \in ParamOptions :
          UpdateTexture(ParamImage, options, NoTexturePosition)
    \/ \E filter \in TextureFilters, wrap \in TextureWraps,
          ignoreMipMap \in BOOLEAN : BindTexture(filter, wrap, ignoreMipMap)
    \/ \E minFilter \in TextureFilters, magFilter \in TextureFilters,
          wrapS \in TextureWraps, wrapT \in TextureWraps :
          BindExtraParamTexture(minFilter, magFilter, wrapS, wrapT)

SpecTextureParams == InitTexture /\ [][NextTextureParams]_vars

SpecDraw == InitDraw /\ [][NextDraw]_vars

\* ---------------------------------------------------- the render passes
\* drawSymbols is called in every render pass of a frame.  The layer has
\* occlusion-driven opacity and variable placement, the first tile's bucket
\* holds MaxInstances instances and one placed text symbol
InitPasses ==
    /\ InitCommon
    /\ InitNoAnchors
    /\ symbolParams = [useOcclusionQueries |-> TRUE, visualizeOcclusions |-> "none",
                       occlusionQueryFrameWindow |-> 1]
    /\ \E hasSortKey \in BOOLEAN :
          layer = [Layer(hasSortKey, 1, 1, 0, 1, TRUE, 0)
                      EXCEPT !.variablePlacement = TRUE]
    /\ projectionName = "mercator"
    /\ buckets = [t \in Tiles |->
                     IF t = 1
                     THEN [PlainBucket EXCEPT !.numInstances = MaxInstances]
                     ELSE NoBucket]
    /\ occlusionState = [t \in Tiles |-> [i \in Instances |-> OcclusionStateOne]]

\* the cross-tile IDs of the placed text symbols of the buckets
PlacedCrossTileIDs ==
    {c \in CrossTileIDs :
        \E t \in Tiles :
            /\ buckets[t].present
            /\ \E s \in DOMAIN buckets[t].textPlaced :
                   buckets[t].textPlaced[s].crossTileID = c}

NextPasses ==
    \/ \E pass \in RenderPasses : RenderFrame(pass)
    \/ \E t \in Tiles, i \in Instances : GpuCompletes(t, i)
    \/ \E c \in PlacedCrossTileIDs : PlacementSetsOffset(c)

SpecPasses == InitPasses /\ [][NextPasses]_vars

\* =================================================================== claims
Visible == OcclusionStateOne
Occluded == OcclusionStateZero

\* the step is a translucent-pass drawSymbols call (the frame counter moves)
FrameStep == frameCounter' # frameCounter

\* the frame counter of the frame whose calls are in the log
LastFrameCounter == (frameCounter + FrameCounterWrap - 1) % FrameCounterWrap

InstanceExists(t, i) == buckets[t].present /\ i < buckets[t].numInstances

\* drawOcclusions runs in the frame and reaches the instances of tile t
OcclusionReaches(t) ==
    /\ ~(layer.hasSortKey /\ (layer.iconOpacity # 0 \/ layer.textOpacity # 0))
    /\ symbolParams.useOcclusionQueries
    /\ layer.hasInitialOcclusionOpacityProperties
    /\ (layer.iconOcclusionOpacity # 1 \/ layer.textOcclusionOpacity # 1)
    /\ \E k \in 1..Len(coords) : coords[k] = t
    /\ buckets[t].present
    /\ buckets[t].projection = "mercator"
    /\ projectionName = "mercator"
    /\ ~buckets[t].fullyClipped

HiddenNow(t, i) == opacities[t][i] = "hidden"

\* the positions of the events named name of instance (t, i) in log
QueryOps(log, name, t, i) ==
    {k \in 1..Len(log) : log[k].op = name /\ log[k].tile = t /\ log[k].inst = i}

\* the positions of all occlusion events of instance (t, i) in log
InstanceOps(log, t, i) ==
    UNION {QueryOps(log, name, t, i) :
              name \in {"create", "begin", "occluder", "end", "consume"}}

SetMax(S) == CHOOSE x \in S : \A y \in S : y <= x

\* C1: drawOcclusions never calls begin() on a query that is not free: a
\* begin() is preceded, in the same call, by the query's creation or by no
\* other begin() of it, and at the start of the call the query was free or
\* did not exist; so between two begin() calls there is a consumeResult().
C1_NoBeginUnlessFree ==
    [][FrameStep =>
        \A t \in Tiles, i \in Instances :
            \A k \in QueryOps(calls', "begin", t, i) :
                LET prior == {j \in QueryOps(calls', "begin", t, i)
                                    \cup QueryOps(calls', "consume", t, i) : j < k}
                IN  IF prior = {}
                    THEN queries[t][i] \in {NoQuery, "free"}
                    ELSE calls'[SetMax(prior)].op = "consume"]_vars

\* a query that was begun, completed and consumed is begun a second time
C1_Witness ==
    \E t \in Tiles, i \in Instances :
        /\ QueryOps(calls, "begin", t, i) # {}
        /\ QueryOps(calls, "create", t, i) = {}
        /\ queries[t][i] = "pending"

\* C2: a poll that finds the result available consumes it exactly once, the
\* query becomes free, and the persisted state becomes visible (1) iff the
\* sample count is > 0 and occluded (0) iff it is 0.
C2_ConsumeSetsState ==
    [][FrameStep =>
        \A t \in Tiles, i \in Instances :
            LET consumed == QueryOps(calls', "consume", t, i)
                polled == /\ InstanceExists(t, i)
                          /\ OcclusionReaches(t)
                          /\ symbolParams.visualizeOcclusions = "none"
                          /\ ~HiddenNow(t, i)
                          /\ (frameCounter + i)
                                 % symbolParams.occlusionQueryFrameWindow = 0
            IN  /\ (polled /\ queries[t][i] = "available")
                       => Cardinality(consumed) = 1
                /\ Cardinality(consumed) <= 1
                /\ \A k \in consumed :
                       /\ queries[t][i] = "available"
                       /\ queries'[t][i] = "free"
                       /\ (occlusionState'[t][i] = Visible) <=> (calls'[k].samples > 0)
                       /\ (occlusionState'[t][i] = Occluded) <=> (calls'[k].samples = 0)
                       /\ occlusionState'[t][i] = IF calls'[k].samples = 0 THEN 0 ELSE 1]_vars

\* one frame consumed a result of zero samples and a result of some samples
C2_Witness ==
    \E t \in Tiles, i \in Instances, u \in Tiles, j \in Instances :
        /\ \E k \in QueryOps(calls, "consume", t, i) : calls[k].samples = 0
        /\ occlusionState[t][i] = Occluded /\ queries[t][i] = "free"
        /\ \E k \in QueryOps(calls, "consume", u, j) : calls[k].samples > 0
        /\ occlusionState[u][j] = Visible /\ queries[u][j] = "free"

\* C3: in non-visualize mode, in the frame with counter F and window W, an
\* instance i that drawOcclusions reaches, that is not hidden and whose query
\* is free or not yet created begins a query iff (F + i) mod W = 0; and no
\* instance with (F + i) mod W # 0 begins a query.
C3_BeginIffInSlot ==
    [][(FrameStep /\ symbolParams.visualizeOcclusions = "none") =>
        \A t \in Tiles, i \in Instances :
            LET inSlot == (frameCounter + i)
                              % symbolParams.occlusionQueryFrameWindow = 0
                began == QueryOps(calls', "begin", t, i) # {}
            IN  /\ ~inSlot => ~began
                /\ (/\ InstanceExists(t, i)
                    /\ OcclusionReaches(t)
                    /\ ~HiddenNow(t, i)
                    /\ queries[t][i] \in {NoQuery, "free"})
                       => (began <=> inSlot)]_vars

\* with a window of more than one frame, instance 1 began a query in a frame
\* in which instance 0 of the same bucket, free and not hidden, did not
C3_Witness ==
    /\ symbolParams.occlusionQueryFrameWindow > 1
    /\ symbolParams.visualizeOcclusions = "none"
    /\ \E t \in Tiles :
        /\ InstanceExists(t, 1)
        /\ QueryOps(calls, "begin", t, 1) # {}
        /\ (LastFrameCounter + 1) % symbolParams.occlusionQueryFrameWindow = 0
        /\ InstanceOps(calls, t, 0) = {}
        /\ ~HiddenNow(t, 0)
        /\ queries[t][0] \in {NoQuery, "free"}

\* the frame window drawOcclusions uses: 1 in visualize mode
C4_Window ==
    IF symbolParams.visualizeOcclusions = "none"
    THEN symbolParams.occlusionQueryFrameWindow
    ELSE 1

\* C4: in a frame with counter F and window W, an instance i with
\* (F + i) mod W # 0 is left untouched by drawOcclusions: its occlusion state,
\* its query object and the query's state are unchanged and no query call
\* and no occluder draw is issued for it.
C4_OutOfSlotUntouched ==
    [][FrameStep =>
        \A t \in Tiles, i \in Instances :
            ((frameCounter + i) % C4_Window # 0) =>
                /\ occlusionState'[t][i] = occlusionState[t][i]
                /\ queries'[t][i] = queries[t][i]
                /\ queryCount'[t][i] = queryCount[t][i]
                /\ InstanceOps(calls', t, i) = {}]_vars

\* an instance outside the frame's slot keeps its available result unread
\* while another instance of its bucket begins a query in that frame
C4_Witness ==
    \E t \in Tiles, i \in Instances, j \in Instances :
        /\ InstanceExists(t, i) /\ InstanceExists(t, j)
        /\ symbolParams.visualizeOcclusions = "none"
        /\ (LastFrameCounter + i) % symbolParams.occlusionQueryFrameWindow # 0
        /\ queries[t][i] = "available" /\ ~HiddenNow(t, i)
        /\ InstanceOps(calls, t, i) = {}
        /\ QueryOps(calls, "begin", t, j) # {}

\* C5: a symbol instance's persisted occlusion state changes only in a step
\* in which the available result of its query is consumed; every other step
\* (creation, begin, end, a poll without result, a skipped frame, the GPU
\* completing, a placement commit) retains the previous value.
C5_StateChangesOnlyOnConsume ==
    [][\A t \in Tiles, i \in Instances :
        (occlusionState'[t][i] # occlusionState[t][i]) =>
            /\ FrameStep
            /\ queries[t][i] = "available"
            /\ QueryOps(calls', "consume", t, i) # {}
            /\ queries'[t][i] = "free"]_vars

\* a consumed result of zero samples has turned a visible instance occluded,
\* and in the same frame another instance began a query and stayed visible
C5_Witness ==
    \E t \in Tiles, i \in Instances, u \in Tiles, j \in Instances :
        /\ QueryOps(calls, "consume", t, i) # {}
        /\ occlusionState[t][i] = Occluded
        /\ QueryOps(calls, "begin", u, j) # {}
        /\ occlusionState[u][j] = Visible

\* C6: every occlusion query that has been begun is eventually polled and its
\* result consumed (the query returns to free), given that frames keep being
\* rendered and the GPU eventually makes the result available; also when the
\* instance becomes hidden by placement after the begin.
C6_BegunEventuallyConsumed ==
    \A t \in Tiles, i \in Instances :
        (queries[t][i] = "pending") ~> (queries[t][i] = "free")

\* C7: at most one OcclusionQuery object is ever created per bucket and
\* instance index: it is created the first time the instance is eligible (in
\* its slot, not hidden, no query stored yet), and an index that holds a query
\* keeps that object in every later step, whatever the query's state.
C7_OneQueryPerInstance ==
    [][\A t \in Tiles, i \in Instances :
        LET created == QueryOps(calls', "create", t, i)
            eligible == /\ InstanceExists(t, i)
                        /\ OcclusionReaches(t)
                        /\ symbolParams.visualizeOcclusions = "none"
                        /\ ~HiddenNow(t, i)
                        /\ (frameCounter + i)
                               % symbolParams.occlusionQueryFrameWindow = 0
        IN  /\ queryCount'[t][i] <= 1
            /\ (queries[t][i] # NoQuery) =>
                   /\ queries'[t][i] # NoQuery
                   /\ queryCount'[t][i] = queryCount[t][i]
                   /\ (FrameStep => created = {})
            /\ (FrameStep /\ queries[t][i] = NoQuery) =>
                   /\ (eligible <=> Cardinality(created) = 1)
                   /\ (~eligible => created = {})
                   /\ (eligible => queries'[t][i] # NoQuery /\ queryCount'[t][i] = 1)]_vars

\* the one query object of an instance is in use for the second time, while
\* another instance of the bucket had its query created in this frame
C7_Witness ==
    \E t \in Tiles, i \in Instances, j \in Instances :
        /\ QueryOps(calls, "begin", t, i) # {}
        /\ QueryOps(calls, "create", t, i) = {}
        /\ queryCount[t][i] = 1
        /\ QueryOps(calls, "create", t, j) # {}
        /\ queryCount[t][j] = 1

\* ------------------------------------------------- claims on the draw list
\* the draw calls of the frame whose calls are in the log, in issue order
DrawCalls == SelectSeq(calls, LAMBDA c : c.op = "draw")

\* the position of tile t in the visible-tile list
CoordIndex(t) == CHOOSE k \in 1..Len(coords) : coords[k] = t

SegmentsOf(t, kind) ==
    IF kind = "icon" THEN buckets[t].iconSegments ELSE buckets[t].textSegments

OpacityOf(kind) ==
    IF kind = "icon" THEN layer.iconOpacity ELSE layer.textOpacity

\* cross-feature sort-key ordering applies to the frame
SortingApplies ==
    /\ layer.hasSortKey
    /\ \E k \in 1..Len(coords) :
           ~TileSkipped(coords[k]) /\ buckets[coords[k]].canOverlap

\* the segment lists a frame has to draw for tile t and kind: one list per
\* segment where the bucket's features are sorted, one list per buffer
\* otherwise (empty when the kind is fully transparent in a one-phase frame)
ExpectedSegments(t, kind) ==
    LET segs == SegmentsOf(t, kind)
        drawn == IF layer.hasSortKey
                 THEN layer.iconOpacity # 0 \/ layer.textOpacity # 0
                 ELSE OpacityOf(kind) # 0
    IN  IF TileSkipped(t) \/ ~drawn \/ Len(segs) = 0
        THEN {}
        ELSE IF layer.hasSortKey /\ buckets[t].canOverlap
             THEN IF OpacityOf(kind) # 0
                  THEN {<<k>> : k \in 1..Len(segs)} ELSE {}
             ELSE {IF OpacityOf(kind) # 0 THEN Indices(segs) ELSE <<>>}

ExpectedEntries ==
    UNION {{<<t, kind, sg>> : sg \in ExpectedSegments(t, kind)} :
              t \in Tiles, kind \in {"icon", "text"}}

EntryOf(c) == <<c.tile, c.kind, c.segments>>

\* the draw calls of one entry, in issue order
EntryDraws(e) == SelectSeq(DrawCalls, LAMBDA c : EntryOf(c) = e)

\* a was pushed onto the draw list before b: tiles in coords order, icons
\* before text within a tile, segments in buffer order
PushedBefore(a, b) ==
    \/ CoordIndex(a.tile) < CoordIndex(b.tile)
    \/ /\ a.tile = b.tile
       /\ \/ a.kind = "icon" /\ b.kind = "text"
          \/ a.kind = b.kind /\ a.segments[1] < b.segments[1]

\* the render state of an entry draws a halo: SDF icons with a halo width,
\* text with a halo width
HaloEligible(t, kind) ==
    IF kind = "icon"
    THEN buckets[t].sdfIcons /\ layer.iconHaloWidth # 0
    ELSE layer.textHaloWidth # 0

SDFState(t, kind) == IF kind = "icon" THEN buckets[t].sdfIcons ELSE TRUE

\* C8: when sort-key ordering is active for a frame, the draw calls are issued
\* in non-decreasing sort-key order over the entries of all tiles, entries
\* with equal keys in the order they were pushed (stable), and the issue
\* order is the sorted list itself: every entry is drawn once, with the key
\* of its segment, and nothing is moved after the sort.
C8_SortKeyOrder ==
    (renderPass = "translucent" /\ SortingApplies) =>
        LET D == DrawCalls
        IN  /\ {EntryOf(D[k]) : k \in 1..Len(D)} = ExpectedEntries
            /\ Len(D) = Cardinality(ExpectedEntries)
            /\ \A k \in 1..Len(D) :
                   buckets[D[k].tile].canOverlap =>
                       D[k].sortKey = SegmentsOf(D[k].tile, D[k].kind)[D[k].segments[1]]
            /\ \A j \in 1..Len(D), k \in 1..Len(D) :
                   j < k =>
                       /\ D[j].sortKey <= D[k].sortKey
                       /\ (D[j].sortKey = D[k].sortKey => PushedBefore(D[j], D[k]))

\* a sorted frame that moved an entry in front of one pushed earlier and that
\* kept two entries with equal keys in their pushed order
C8_Witness ==
    /\ renderPass = "translucent"
    /\ SortingApplies
    /\ \E j \in 1..Len(DrawCalls), k \in 1..Len(DrawCalls) :
           /\ j < k
           /\ DrawCalls[j].sortKey < DrawCalls[k].sortKey
           /\ PushedBefore(DrawCalls[k], DrawCalls[j])
    /\ \E j \in 1..Len(DrawCalls), k \in 1..Len(DrawCalls) :
           /\ j < k
           /\ DrawCalls[j].sortKey = DrawCalls[k].sortKey
           /\ DrawCalls[j].tile # DrawCalls[k].tile

\* no text draw call is issued before an icon draw call
IconsBeforeText ==
    \A j \in 1..Len(DrawCalls), k \in 1..Len(DrawCalls) :
        j < k => ~(DrawCalls[j].kind = "text" /\ DrawCalls[k].kind = "icon")

\* C9 as stated: whenever cross-feature sort-key ordering does not apply (no
\* sort key, or a sort key over buckets that do not permit overlap), the frame
\* issues the icon draw calls of all tiles before the text draw call of any
\* tile.
C9_IconsBeforeTextUnlessSorting ==
    (renderPass = "translucent" /\ ~SortingApplies) => IconsBeforeText

\* C9: whenever the layer has no sort key, the frame issues the icon draw
\* calls of all tiles before the text draw call of any tile.
C9_IconsBeforeTextWithoutSortKey ==
    (renderPass = "translucent" /\ ~layer.hasSortKey) => IconsBeforeText

\* a frame of a layer without sort key that drew icons and text of two tiles
C9_Witness ==
    /\ renderPass = "translucent"
    /\ ~layer.hasSortKey
    /\ \E t \in Tiles, u \in Tiles :
           /\ t # u
           /\ \A e \in {<<t, "icon">>, <<u, "icon">>, <<t, "text">>, <<u, "text">>} :
                  \E k \in 1..Len(DrawCalls) :
                      /\ DrawCalls[k].tile = e[1]
                      /\ DrawCalls[k].kind = e[2]
                      /\ DrawCalls[k].segments # <<>>

\* C10 as stated: a halo-eligible entry gets two draw calls, the halo pass
\* with the halo flag 1 and then the fill pass with the flag 0; any other
\* entry gets exactly one draw call (flag 0 for SDF states).
C10_HaloThenFill ==
    (renderPass = "translucent") =>
        \A e \in ExpectedEntries :
            LET ds == EntryDraws(e)
            IN  IF HaloEligible(e[1], e[2])
                THEN /\ Len(ds) = 2
                     /\ ds[1].hasIsHalo /\ ds[1].isHalo = 1
                     /\ ds[2].hasIsHalo /\ ds[2].isHalo = 0
                ELSE /\ Len(ds) = 1
                     /\ SDFState(e[1], e[2]) => (ds[1].hasIsHalo /\ ds[1].isHalo = 0)

\* C10: every entry of the draw list gets exactly one draw call and the frame
\* issues no other; a halo-eligible entry is drawn with the halo flag 1 and
\* two instances, any other entry with one instance (flag 0 for SDF states).
C10_OneInstancedDrawPerEntry ==
    (renderPass = "translucent") =>
        /\ Len(DrawCalls) = Cardinality(ExpectedEntries)
        /\ \A e \in ExpectedEntries :
               LET ds == EntryDraws(e)
               IN  /\ Len(ds) = 1
                   /\ IF HaloEligible(e[1], e[2])
                      THEN /\ ds[1].hasIsHalo /\ ds[1].isHalo = 1
                           /\ ds[1].instanceCount = 2
                      ELSE /\ ds[1].instanceCount = 1
                           /\ SDFState(e[1], e[2]) =>
                                  (ds[1].hasIsHalo /\ ds[1].isHalo = 0)

\* a frame that drew a halo-eligible entry and an SDF entry without halo
C10_Witness ==
    /\ renderPass = "translucent"
    /\ \E e \in ExpectedEntries :
           HaloEligible(e[1], e[2]) /\ Len(EntryDraws(e)) = 1
    /\ \E e \in ExpectedEntries :
           /\ ~HaloEligible(e[1], e[2]) /\ SDFState(e[1], e[2])
           /\ Len(EntryDraws(e)) = 1

\* ---------------------------------------------- claims on the draw entries
\* the draw calls of tile t and kind kind, in issue order
KindDraws(t, kind) ==
    SelectSeq(DrawCalls, LAMBDA c : c.tile = t /\ c.kind = kind)

\* entry e was pushed for kind kind of tile t: it carries the kind's render
\* state, or none when the bucket has no segments of the kind
EntryOfKind(e, t, kind) ==
    IF Len(SegmentsOf(t, kind)) = 0
    THEN e.state.null
    ELSE ~e.state.null /\ e.state.kind = kind /\ e.state.tile = t

TwoEntriesIconThenText(t) ==
    /\ Len(FrameEntries(t)) = 2
    /\ EntryOfKind(FrameEntries(t)[1], t, "icon")
    /\ EntryOfKind(FrameEntries(t)[2], t, "text")

PlainTwoPassFrame ==
    /\ renderPass = "translucent"
    /\ ~layer.hasSortKey
    /\ layer.iconOpacity # 0
    /\ layer.textOpacity # 0

\* C11 as stated: for a layer with no sort key and nonzero icon and text
\* opacity, each visible tile that has a non-clipped bucket contributes
\* exactly two entries per frame, one icon and one text.
C11_TwoEntriesPerBucketTile ==
    PlainTwoPassFrame =>
        \A k \in 1..Len(coords) :
            (buckets[coords[k]].present /\ ~buckets[coords[k]].fullyClipped) =>
                TwoEntriesIconThenText(coords[k])

\* the loop over coords draws from the bucket of tile t
BucketDrawn(t) ==
    /\ buckets[t].present
    /\ ~buckets[t].fullyClipped
    /\ ~(buckets[t].projection = "mercator" /\ projectionName = "globe")

\* C11: for a layer with no sort key and nonzero icon and text opacity, each
\* visible tile whose bucket is present, not fully clipped and not a mercator
\* bucket under globe projection contributes exactly two entries per frame,
\* the icon entry and then the text entry, each drawn once iff the bucket has
\* segments of its kind; any other tile contributes no entry and no draw.
C11_TwoEntriesPerDrawnBucket ==
    PlainTwoPassFrame =>
        \A k \in 1..Len(coords) :
            LET t == coords[k]
            IN  IF BucketDrawn(t)
                THEN /\ TwoEntriesIconThenText(t)
                     /\ \A kind \in {"icon", "text"} :
                            Len(KindDraws(t, kind)) =
                                (IF Len(SegmentsOf(t, kind)) = 0 THEN 0 ELSE 1)
                ELSE /\ FrameEntries(t) = <<>>
                     /\ \A kind \in {"icon", "text"} : KindDraws(t, kind) = <<>>

\* a two-pass frame under globe projection that skipped a mercator bucket and
\* drew the icon and the text of a globe bucket
C11_Witness ==
    /\ PlainTwoPassFrame
    /\ \E t \in Tiles, u \in Tiles :
           /\ buckets[t].present /\ ~buckets[t].fullyClipped /\ ~BucketDrawn(t)
           /\ BucketDrawn(u)
           /\ Len(KindDraws(u, "icon")) = 1
           /\ Len(KindDraws(u, "text")) = 1

\* C12 as stated: for a layer whose icon-opacity is zero, no icon entry is
\* emitted and no icon draw call is issued for any tile, in the two-pass path
\* and in the single-pass path with or without overlapping buckets.
C12_NoIconEntryAtZeroOpacity ==
    (renderPass = "translucent" /\ layer.iconOpacity = 0) =>
        \A t \in Tiles :
            /\ KindDraws(t, "icon") = <<>>
            /\ \A k \in 1..Len(FrameEntries(t)) :
                   FrameEntries(t)[k].state.null
                   \/ FrameEntries(t)[k].state.kind # "icon"

\* C12: for a layer whose icon-opacity is zero no icon segment is drawn for
\* any tile: every icon entry and icon draw call of the frame has an empty
\* segment list, and there is none at all unless the layer has a sort key and
\* the tile's bucket does not permit overlap.
C12_NoIconSegmentAtZeroOpacity ==
    (renderPass = "translucent" /\ layer.iconOpacity = 0) =>
        \A t \in Tiles :
            /\ \A k \in 1..Len(KindDraws(t, "icon")) :
                   KindDraws(t, "icon")[k].segments = <<>>
            /\ \A k \in 1..Len(FrameEntries(t)) :
                   (~FrameEntries(t)[k].state.null
                    /\ FrameEntries(t)[k].state.kind = "icon") =>
                       FrameEntries(t)[k].segments = <<>>
            /\ (~layer.hasSortKey \/ buckets[t].canOverlap) =>
                   KindDraws(t, "icon") = <<>>

\* frames with zero icon opacity: a single-pass frame over buckets without
\* overlap issued an icon draw call with no segments next to the text
C12_Witness ==
    /\ renderPass = "translucent"
    /\ layer.iconOpacity = 0
    /\ layer.hasSortKey
    /\ \E t \in Tiles :
           /\ ~buckets[t].canOverlap
           /\ Len(KindDraws(t, "icon")) = 1
           /\ KindDraws(t, "icon")[1].segments = <<>>
           /\ Len(KindDraws(t, "text")) = 1
           /\ KindDraws(t, "text")[1].segments # <<>>

\* C19: for a tile whose bucket is missing, or whose required atlas texture
\* (image atlas for icons, glyph atlas for text) is missing, no draw call is
\* issued for that tile and kind in the frame.
C19_NoDrawWithoutBucketOrAtlas ==
    (renderPass = "translucent") =>
        \A k \in 1..Len(DrawCalls) :
            LET c == DrawCalls[k]
            IN  /\ buckets[c.tile].present
                /\ (c.kind = "icon" => buckets[c.tile].imageAtlasTexture)
                /\ (c.kind = "text" => buckets[c.tile].glyphAtlasTexture)

\* --------------------------------------- claims on degraded occlusion runs
\* the occlusion pass of the frame reaches the loop over coords
OcclusionPassRuns ==
    /\ ~(layer.hasSortKey /\ (layer.iconOpacity # 0 \/ layer.textOpacity # 0))
    /\ symbolParams.useOcclusionQueries
    /\ layer.hasInitialOcclusionOpacityProperties
    /\ (layer.iconOcclusionOpacity # 1 \/ layer.textOcclusionOpacity # 1)

\* the positions in log of the events named name of tile t
TileOps(log, name, t) ==
    {k \in 1..Len(log) : log[k].op = name /\ log[k].tile = t}

\* the positions in log of the warnings that were printed
PrintedWarnings(log) ==
    {k \in 1..Len(log) : log[k].op = "warnOnce" /\ log[k].printed}

\* the frame leaves the queries and the occlusion state of tile t alone
NoOcclusionWork(t) ==
    /\ \A name \in {"create", "begin", "occluder", "end", "consume", "poll"} :
           TileOps(calls', name, t) = {}
    /\ queries'[t] = queries[t]
    /\ queryCount'[t] = queryCount[t]
    /\ occlusionState'[t] = occlusionState[t]

\* the frame draws the symbols of tile t as it does without occlusion
DrawsNormally(t) ==
    \A kind \in {"icon", "text"} :
        Cardinality({k \in TileOps(calls', "draw", t) : calls'[k].kind = kind}) =
            (IF BucketDrawn(t) /\ Len(SegmentsOf(t, kind)) # 0 THEN 1 ELSE 0)

GlobeAffected(t) ==
    /\ buckets[t].present
    /\ (projectionName = "globe" \/ buckets[t].projection = "globe")

C20_UnavailableResultDeferred ==
    [][FrameStep =>
          \A t \in Tiles, i \in Instances :
              (queries[t][i] = "pending") =>
                  /\ queries'[t][i] = "pending"
                  /\ queryCount'[t][i] = queryCount[t][i]
                  /\ occlusionState'[t][i] = occlusionState[t][i]
                  /\ InstanceOps(calls', t, i) = {}
                  /\ Cardinality(QueryOps(calls', "poll", t, i)) =
                         (IF /\ OcclusionReaches(t)
                             /\ symbolParams.visualizeOcclusions = "none"
                             /\ ~HiddenNow(t, i)
                             /\ (frameCounter + i)
                                    % symbolParams.occlusionQueryFrameWindow = 0
                          THEN 1 ELSE 0)]_vars

\* a frame polled the pending query of an instance, left it pending and its
\* state occluded, while it consumed the result of another instance
C20_Witness ==
    \E t \in Tiles, i \in Instances, u \in Tiles, j \in Instances :
        /\ QueryOps(calls, "poll", t, i) # {}
        /\ queries[t][i] = "pending"
        /\ occlusionState[t][i] = Occluded
        /\ QueryOps(calls, "consume", u, j) # {}

\* ------------------------------------ claims on the variable anchor resolver
\* the positions in log of the rewrites of tile t's dynamic buffer
BufferUpdates(log, t, buffer) ==
    {k \in 1..Len(log) :
        log[k].op = "updateData" /\ log[k].tile = t /\ log[k].buffer = buffer}

\* the glyphs of the first s symbols of a placed symbol array
RECURSIVE NumGlyphsUpTo(_, _)
NumGlyphsUpTo(placed, s) ==
    IF s = 0 THEN 0 ELSE NumGlyphsUpTo(placed, s - 1) + placed[s].numGlyphs

\* the slots of placed symbol number s (from 1) in its dynamic vertex array
Slots(placed, s) ==
    (NumGlyphsUpTo(placed, s - 1) + 1)..NumGlyphsUpTo(placed, s)

\* placed text symbol number s of tile t has no applicable variable offset
NoOffsetApplies(t, s) ==
    LET symbol == buckets[t].textPlaced[s]
    IN  \/ symbol.hidden
        \/ symbol.crossTileID = 0
        \/ buckets[t].allowVerticalPlacement
           /\ symbol.placedOrientation = WritingModeNone
        \/ variableOffsets[symbol.crossTileID] = Absent

TextSymbols(t) == 1..Len(buckets[t].textPlaced)
IconSymbols(t) == 1..Len(buckets[t].iconPlaced)

\* the placed text symbols that reference placed icon number i (from 1)
Referencing(t, i) ==
    {s \in TextSymbols(t) : buckets[t].textPlaced[s].associatedIconIndex = i - 1}

\* C13: within one drawSymbols call with variable placement, every rewrite of
\* a dynamic vertex buffer by the resolver, for every tile, comes before the
\* first draw call of any tile (render states are built by the drawing calls).
C13_AnchorsBeforeDraws ==
    (renderPass = "translucent" /\ layer.variablePlacement) =>
        /\ \A j \in 1..Len(calls), k \in 1..Len(calls) :
               (calls[j].op = "updateData" /\ calls[k].op = "draw") => j < k
        /\ \A t \in Tiles : Cardinality(BufferUpdates(calls, t, "text")) <= 1

\* a frame rewrote the text buffers of two tiles and drew icons and text of both
C13_Witness ==
    /\ renderPass = "translucent"
    /\ layer.variablePlacement
    /\ \E t \in Tiles, u \in Tiles :
           /\ t # u
           /\ BufferUpdates(calls, t, "text") # {}
           /\ BufferUpdates(calls, u, "text") # {}
           /\ Len(KindDraws(t, "icon")) = 1 /\ Len(KindDraws(t, "text")) = 1
           /\ Len(KindDraws(u, "icon")) = 1 /\ Len(KindDraws(u, "text")) = 1

\* C14: in a resolver pass over a bucket, every placed text symbol without an
\* applicable variable offset (hidden, no cross-tile ID, orientation skipped,
\* or no entry in the offsets map) gets the hidden vertex state in exactly its
\* numGlyphs slots of the text array, whatever the camera, the elevation and
\* the alignment flags are.
C14_HiddenWithoutOffset ==
    [][FrameStep =>
          \A t \in Tiles :
              (BufferUpdates(calls', t, "text") # {}) =>
                  /\ Len(dynamicText'[t]) =
                         NumGlyphsUpTo(buckets[t].textPlaced, Len(buckets[t].textPlaced))
                  /\ \A s \in TextSymbols(t) :
                         \A g \in Slots(buckets[t].textPlaced, s) :
                             dynamicText'[t][g].hidden = NoOffsetApplies(t, s)]_vars

\* a pass hid a symbol of two glyphs next to a symbol that it shifted
C14_Witness ==
    \E t \in Tiles :
        /\ BufferUpdates(calls, t, "text") # {}
        /\ \E s \in TextSymbols(t), r \in TextSymbols(t) :
               /\ NoOffsetApplies(t, s)
               /\ ~buckets[t].textPlaced[s].hidden
               /\ buckets[t].textPlaced[s].numGlyphs = 2
               /\ \A g \in Slots(buckets[t].textPlaced, s) : dynamicText[t][g].hidden
               /\ ~NoOffsetApplies(t, r)
               /\ \A g \in Slots(buckets[t].textPlaced, r) : ~dynamicText[t][g].hidden

\* placed icon number i of tile t is hidden in the rewritten icon array
IconEmittedHidden(t, i) ==
    \A g \in Slots(buckets[t].iconPlaced, i) : dynamicIcon'[t][g] = HiddenVertex

IconArrayComplete(t) ==
    Len(dynamicIcon'[t]) =
        NumGlyphsUpTo(buckets[t].iconPlaced, Len(buckets[t].iconPlaced))

\* C15 as stated: with icon-text-fit, every placed icon that has an associated
\* text instance emitted as hidden is itself emitted as hidden, also when
\* several placed text symbols reference the icon.
C15_IconHiddenWithAnyHiddenText ==
    [][FrameStep =>
          \A t \in Tiles :
              (BufferUpdates(calls', t, "icon") # {}) =>
                  /\ IconArrayComplete(t)
                  /\ \A i \in IconSymbols(t) :
                         (\E s \in Referencing(t, i) : NoOffsetApplies(t, s)) =>
                             IconEmittedHidden(t, i)]_vars

\* C15: with icon-text-fit, every placed icon for which no placed text symbol
\* that references it produced a shift (all its associated text instances were
\* emitted as hidden, or it has none) is itself emitted as hidden.
C15_IconHiddenWithoutShift ==
    [][FrameStep =>
          \A t \in Tiles :
              (BufferUpdates(calls', t, "icon") # {}) =>
                  /\ IconArrayComplete(t)
                  /\ \A i \in IconSymbols(t) :
                         (\A s \in Referencing(t, i) : NoOffsetApplies(t, s)) =>
                             IconEmittedHidden(t, i)]_vars

\* a pass hid an icon whose two text symbols were both emitted hidden and
\* shifted another icon of the bucket
C15_Witness ==
    \E t \in Tiles :
        /\ BufferUpdates(calls, t, "icon") # {}
        /\ \E i \in IconSymbols(t), j \in IconSymbols(t) :
               /\ Cardinality(Referencing(t, i)) >= 1
               /\ \A s \in Referencing(t, i) : NoOffsetApplies(t, s)
               /\ ~buckets[t].iconPlaced[i].hidden
               /\ \A g \in Slots(buckets[t].iconPlaced, i) :
                      dynamicIcon[t][g] = HiddenVertex
               /\ \E g \in Slots(buckets[t].iconPlaced, j) :
                      ~dynamicIcon[t][g].hidden

\* every glyph slot of placed icon i holds the vertex written for text symbol s
IconHasShiftOf(t, i, s) ==
    \A g \in Slots(buckets[t].iconPlaced, i) :
        \A h \in Slots(buckets[t].textPlaced, s) :
            /\ ~dynamicIcon'[t][g].hidden
            /\ dynamicIcon'[t][g] = dynamicText'[t][h]

\* C16 as stated: with icon-text-fit, every placed icon whose associated text
\* instance produced a shift has exactly that (x, y, z, angle) in each of its
\* glyph slots, including icons whose own hidden flag is set.
C16_IconTakesEveryShift ==
    [][FrameStep =>
          \A t \in Tiles :
              (BufferUpdates(calls', t, "icon") # {}) =>
                  /\ IconArrayComplete(t)
                  /\ \A i \in IconSymbols(t) :
                         \A s \in Referencing(t, i) :
                             ~NoOffsetApplies(t, s) => IconHasShiftOf(t, i, s)]_vars

\* C16: with icon-text-fit, every placed icon that is not itself hidden and is
\* referenced by a text instance that produced a shift has, in each of its
\* glyph slots, the (x, y, z, angle) of the last such text instance in placed
\* symbol order; an icon whose own hidden flag is set is emitted as hidden.
C16_ShownIconTakesLastShift ==
    [][FrameStep =>
          \A t \in Tiles :
              (BufferUpdates(calls', t, "icon") # {}) =>
                  /\ IconArrayComplete(t)
                  /\ \A i \in IconSymbols(t) :
                         LET shifting == {s \in Referencing(t, i) :
                                             ~NoOffsetApplies(t, s)}
                         IN  IF buckets[t].iconPlaced[i].hidden
                             THEN IconEmittedHidden(t, i)
                             ELSE shifting # {} =>
                                      IconHasShiftOf(t, i, SetMax(shifting))]_vars

\* a pass gave a shown icon the shift of the second of two shifting text
\* symbols that reference it, the texts' shifts being different
C16_Witness ==
    \E t \in Tiles :
        /\ BufferUpdates(calls, t, "icon") # {}
        /\ \E i \in IconSymbols(t), s \in TextSymbols(t), r \in TextSymbols(t) :
               /\ s < r
               /\ {s, r} \subseteq Referencing(t, i)
               /\ ~NoOffsetApplies(t, s) /\ ~NoOffsetApplies(t, r)
               /\ ~buckets[t].iconPlaced[i].hidden
               /\ \A g \in Slots(buckets[t].iconPlaced, i) :
                      \A h \in Slots(buckets[t].textPlaced, r) :
                          dynamicIcon[t][g] = dynamicText[t][h]
               /\ \A g \in Slots(buckets[t].iconPlaced, i) :
                      \A h \in Slots(buckets[t].textPlaced, s) :
                          dynamicIcon[t][g] # dynamicText[t][h]

\* C17: in every frame in which a layer uses variable placement, the text
\* dynamic vertex array of every bucket of the layer with text data is cleared
\* and refilled: afterwards it holds one run of numGlyphs entries per placed
\* symbol, in placed symbol order, written from this frame's offsets.
C17_TextArrayRefilledEveryFrame ==
    [][(FrameStep /\ layer.variablePlacement) =>
          \A t \in Tiles :
              (buckets[t].present /\ Len(buckets[t].textSegments) # 0) =>
                  /\ Len(dynamicText'[t]) =
                         NumGlyphsUpTo(buckets[t].textPlaced, Len(buckets[t].textPlaced))
                  /\ \A s \in TextSymbols(t) :
                         \A g \in Slots(buckets[t].textPlaced, s) :
                             IF NoOffsetApplies(t, s)
                             THEN dynamicText'[t][g] = HiddenVertex
                             ELSE /\ ~dynamicText'[t][g].hidden
                                  /\ dynamicText'[t][g].pos.symbol = s]_vars

\* ------------------------------------------- further claims on the tracker
\* the frame just rendered issued some occlusion call for an instance
SomeOcclusionCall ==
    \E t \in Tiles, i \in Instances :
        InstanceOps(calls, t, i) \cup QueryOps(calls, "poll", t, i) # {}

\* C22: an instance whose placement opacity entry reports hidden is skipped by
\* drawOcclusions in that frame: no query is created, begun, ended, polled or
\* consumed for it, no occluder is drawn for it, and its query and its
\* persisted occlusion state are unchanged.
C22_HiddenInstanceSkipped ==
    [][FrameStep =>
          \A t \in Tiles, i \in Instances :
              HiddenNow(t, i) =>
                  /\ InstanceOps(calls', t, i) = {}
                  /\ QueryOps(calls', "poll", t, i) = {}
                  /\ queries'[t][i] = queries[t][i]
                  /\ queryCount'[t][i] = queryCount[t][i]
                  /\ occlusionState'[t][i] = occlusionState[t][i]]_vars

\* a hidden instance in its slot of the frame kept its available result
\* unread in a frame that issued occlusion calls for another instance
C22_Witness ==
    /\ symbolParams.visualizeOcclusions = "none"
    /\ SomeOcclusionCall
    /\ \E t \in Tiles, i \in Instances :
           /\ InstanceExists(t, i) /\ OcclusionReaches(t)
           /\ HiddenNow(t, i)
           /\ (LastFrameCounter + i) % symbolParams.occlusionQueryFrameWindow = 0
           /\ queries[t][i] = "available"
           /\ InstanceOps(calls, t, i) \cup QueryOps(calls, "poll", t, i) = {}

\* C26 as stated: reading an available result sets the persisted occlusion to
\* visible when the sample count is 0 and to occluded otherwise, and the query
\* returns to free.
C26_VisibleAtZeroSamples ==
    [][FrameStep =>
          \A t \in Tiles, i \in Instances :
              \A k \in QueryOps(calls', "consume", t, i) :
                  /\ occlusionState'[t][i] =
                         IF calls'[k].samples = 0 THEN Visible ELSE Occluded
                  /\ queries'[t][i] = "free"]_vars

\* C26: reading an available result sets the persisted occlusion to occluded
\* (0) when the sample count is 0 and to visible (1) otherwise, and the query
\* returns to free.
C26_OccludedAtZeroSamples ==
    [][FrameStep =>
          \A t \in Tiles, i \in Instances :
              \A k \in QueryOps(calls', "consume", t, i) :
                  /\ occlusionState'[t][i] =
                         IF calls'[k].samples = 0 THEN Occluded ELSE Visible
                  /\ queries'[t][i] = "free"]_vars

\* a result of zero samples was read and left the instance occluded with a
\* free query
C26_Witness ==
    \E t \in Tiles, i \in Instances :
        /\ \E k \in QueryOps(calls, "consume", t, i) : calls[k].samples = 0
        /\ occlusionState[t][i] = Occluded
        /\ queries[t][i] = "free"

\* C27: every begin() of a frame is followed at once by one occluder draw of
\* the same instance and then by end() of the same instance; every end() and
\* every occluder draw of a frame without visualization closes, respectively
\* sits in, such a triple; so no other query is begun in between and none is
\* left between begin and end.
C27_BeginDrawEnd ==
    [][FrameStep =>
          \A k \in 1..Len(calls') :
              /\ calls'[k].op = "begin" =>
                     /\ k + 2 <= Len(calls')
                     /\ calls'[k + 1].op = "occluder"
                     /\ calls'[k + 1].tile = calls'[k].tile
                     /\ calls'[k + 1].inst = calls'[k].inst
                     /\ calls'[k + 2].op = "end"
                     /\ calls'[k + 2].tile = calls'[k].tile
                     /\ calls'[k + 2].inst = calls'[k].inst
              /\ calls'[k].op = "end" =>
                     /\ k > 2
                     /\ calls'[k - 2].op = "begin"
              /\ (calls'[k].op = "occluder"
                  /\ symbolParams.visualizeOcclusions = "none") =>
                     /\ k > 1
                     /\ calls'[k - 1].op = "begin"]_vars

\* one frame began, drew and ended the queries of two instances
C27_Witness ==
    \E k \in 1..Len(calls), j \in 1..Len(calls) :
        /\ k + 2 < j
        /\ calls[k].op = "begin" /\ calls[j].op = "begin"
        /\ calls[Len(calls)].op = "end"

\* C28: in visualize mode the frame window is 1: every instance that
\* drawOcclusions reaches and that is not hidden has exactly one occluder quad
\* drawn in every frame, whatever the frame counter, with the zPass colour and
\* depth function ALWAYS in mode zPass and the zTest colour and LEQUAL
\* otherwise; no query is created, begun, ended, polled or consumed and no
\* query or persisted occlusion state changes.
C28_VisualizeDrawsEveryInstance ==
    [][(FrameStep /\ symbolParams.visualizeOcclusions # "none") =>
          /\ \A t \in Tiles, i \in Instances :
                 LET drawn == QueryOps(calls', "occluder", t, i)
                 IN  /\ (InstanceExists(t, i) /\ OcclusionReaches(t) /\ ~HiddenNow(t, i))
                            => Cardinality(drawn) = 1
                     /\ \A k \in drawn :
                            IF symbolParams.visualizeOcclusions = "zPass"
                            THEN /\ calls'[k].color = "zPassColor"
                                 /\ calls'[k].depthFunc = "ALWAYS"
                            ELSE /\ calls'[k].color = "zTestColor"
                                 /\ calls'[k].depthFunc = "LEQUAL"
                     /\ \A name \in {"create", "begin", "end", "poll", "consume"} :
                            QueryOps(calls', name, t, i) = {}
          /\ queries' = queries
          /\ queryCount' = queryCount
          /\ occlusionState' = occlusionState]_vars

\* a visualize frame drew the occluder of an instance whose slot of the
\* configured window does not match the frame counter
C28_Witness ==
    /\ symbolParams.visualizeOcclusions # "none"
    /\ \E t \in Tiles, i \in Instances :
           /\ (LastFrameCounter + i) % symbolParams.occlusionQueryFrameWindow # 0
           /\ QueryOps(calls, "occluder", t, i) # {}

\* the positions of the calls of drawOcclusions in log
TrackerRuns(log) == {k \in 1..Len(log) : log[k].op = "drawOcclusions"}

\* the positions of all query calls and occluder draws in log
OcclusionWork(log) ==
    {k \in 1..Len(log) :
        log[k].op \in {"create", "begin", "occluder", "end", "poll", "consume"}}

\* C23: if occlusion queries are disabled in the painter, or the layer has no
\* initial occlusion-opacity properties, or its icon and text occlusion
\* opacity are both 1, a drawSymbols call creates, begins, polls and consumes
\* no query, draws no occluder quad and changes no query and no occlusion
\* state.
C23_NoWorkUnlessEnabled ==
    [][(/\ FrameStep
        /\ \/ ~symbolParams.useOcclusionQueries
           \/ ~layer.hasInitialOcclusionOpacityProperties
           \/ (layer.iconOcclusionOpacity = 1 /\ layer.textOcclusionOpacity = 1)) =>
          /\ OcclusionWork(calls') = {}
          /\ queries' = queries
          /\ queryCount' = queryCount
          /\ occlusionState' = occlusionState]_vars

\* drawOcclusions was called with occlusion queries switched off while the
\* result of an instance in its slot was available, and left it unread
C23_Witness ==
    /\ ~symbolParams.useOcclusionQueries
    /\ TrackerRuns(calls) # {}
    /\ \E t \in Tiles, i \in Instances :
           /\ queries[t][i] = "available"
           /\ (LastFrameCounter + i) % symbolParams.occlusionQueryFrameWindow = 0

\* C24: every translucent-pass frame of a layer with occlusion-driven opacity
\* in a non-globe scene calls drawOcclusions exactly once, after the variable
\* anchors are resolved, with or without a sort key; and every frame that
\* draws symbols with the OCCLUSION_QUERIES shader variant calls it.
C24_TrackerRunsEveryFrame ==
    [][FrameStep =>
          /\ (SubjectForOcclusion /\ projectionName # "globe") =>
                 /\ Cardinality(TrackerRuns(calls')) = 1
                 /\ \A k \in TrackerRuns(calls'), j \in 1..Len(calls') :
                        calls'[j].op = "updateData" => j < k
          /\ (\E j \in 1..Len(calls') :
                  calls'[j].op = "draw" /\ calls'[j].occlusionQueries)
                 => TrackerRuns(calls') # {}]_vars

\* ------------------------------------------------ claims on sort-key mode
AllOptions == {NoOptions, OnlyIcons, OnlyText}

KindIncluded(kind, options) ==
    IF kind = "icon" THEN ~options.onlyText ELSE ~options.onlyIcons

StateOf(t, kind) == IF kind = "icon" THEN IconState(t) ELSE TextState(t)

\* the number of entries tile t pushes for kind in sort-key mode
SegmentEntries(t, kind, options) ==
    IF OpacityOf(kind) # 0 /\ KindIncluded(kind, options)
    THEN Len(SegmentsOf(t, kind)) ELSE 0

\* the positions in log of the draw calls of tile t and kind
KindDrawsOf(log, t, kind) ==
    {k \in 1..Len(log) :
        log[k].op = "draw" /\ log[k].tile = t /\ log[k].kind = kind}

\* C29: in sort-key mode (the layer has a sort key and the bucket can overlap)
\* a tile pushes one entry per segment of each kind that has nonzero opacity
\* and is not excluded by the options, holding that segment alone, its sort
\* key and the tile's render state of the kind, icons before text; the frame
\* issues exactly one draw per such segment and none for a kind of opacity
\* zero.
C29_OneEntryPerSegment ==
    \A t \in Tiles :
        (/\ layer.hasSortKey
         /\ buckets[t].present
         /\ buckets[t].canOverlap
         /\ ~TileSkipped(t)) =>
            /\ \A options \in AllOptions :
                   LET es == TileEntries(t, options)
                       icons == SegmentEntries(t, "icon", options)
                   IN  /\ Len(es) = icons + SegmentEntries(t, "text", options)
                       /\ \A k \in 1..Len(es) :
                              LET kind == IF k <= icons THEN "icon" ELSE "text"
                                  seg == IF k <= icons THEN k ELSE k - icons
                              IN  /\ es[k].segments = <<seg>>
                                  /\ es[k].sortKey = SegmentsOf(t, kind)[seg]
                                  /\ es[k].state = StateOf(t, kind)
            /\ (renderPass = "translucent") =>
                   \A kind \in {"icon", "text"} :
                       LET draws == KindDrawsOf(calls, t, kind)
                       IN  /\ Cardinality(draws) = SegmentEntries(t, kind, NoOptions)
                           /\ \A seg \in 1..SegmentEntries(t, kind, NoOptions) :
                                  \E k \in draws :
                                      /\ calls[k].segments = <<seg>>
                                      /\ calls[k].sortKey = SegmentsOf(t, kind)[seg]

\* a sort-key frame drew two icon segments of one tile with different keys,
\* each by its own draw call, and no segment of the fully transparent text
C29_Witness ==
    \E t \in Tiles :
        /\ layer.hasSortKey /\ buckets[t].present /\ buckets[t].canOverlap
        /\ layer.textOpacity = 0
        /\ Len(buckets[t].textSegments) > 0
        /\ Len(buckets[t].iconSegments) = 2
        /\ buckets[t].iconSegments[1] # buckets[t].iconSegments[2]
        /\ Cardinality(KindDrawsOf(calls, t, "icon")) = 2
        /\ KindDrawsOf(calls, t, "text") = {}

\* ------------------------------------------ claims on the placement paths
\* the entries of the text array of tile t that carry a shift
ShiftedText(array) == {g \in 1..Len(array) : ~array[g].hidden}

\* C25: the way the resolver applies a shift depends on the pitch alignment
\* alone: for pitch-aligned text the shift is added to the tile anchor, which
\* is projected again, without rotation; otherwise the shift is added to the
\* projected position in pixels, rotated by the negative bearing iff the text
\* rotates with the map, and z is 0.
C25_PathByPitchAlignment ==
    [][FrameStep =>
          \A t \in Tiles :
              (BufferUpdates(calls', t, "text") # {}) =>
                  \A g \in ShiftedText(dynamicText'[t]) :
                      LET pos == dynamicText'[t][g].pos
                      IN  IF layer.pitchWithMap
                          THEN /\ pos.space = "tile"
                               /\ pos.z = "projected"
                               /\ ~pos.rotateWithMap
                          ELSE /\ pos.space = "pixel"
                               /\ pos.z = "zero"
                               /\ pos.rotateWithMap <=> layer.rotateWithMap]_vars

\* a pass shifted pitch-aligned text that also rotates with the map
C25_Witness ==
    /\ layer.pitchWithMap /\ layer.rotateWithMap
    /\ \E t \in Tiles :
           /\ BufferUpdates(calls, t, "text") # {}
           /\ ShiftedText(dynamicText[t]) # {}

\* placed text symbols s of tile t and r of tile u differ in nothing but their
\* orientation and their bucket's vertical placement
SameButOrientation(t, s, u, r) ==
    /\ s = r
    /\ [buckets[t].textPlaced[s] EXCEPT !.placedOrientation = WritingModeNone]
           = [buckets[u].textPlaced[r] EXCEPT !.placedOrientation = WritingModeNone]

\* C31: every glyph of a placed text symbol that the resolver shifts is emitted
\* with an angle of a quarter turn iff the bucket allows vertical placement and
\* the symbol is placed vertically, and with angle 0 otherwise; the emitted
\* position is the one of a symbol that differs in orientation alone.
C31_QuarterTurnIffVertical ==
    [][FrameStep =>
          \A t \in Tiles :
              (BufferUpdates(calls', t, "text") # {}) =>
                  \A s \in TextSymbols(t) :
                      \A g \in Slots(buckets[t].textPlaced, s) :
                          ~dynamicText'[t][g].hidden =>
                              /\ dynamicText'[t][g].angle =
                                     IF /\ buckets[t].allowVerticalPlacement
                                        /\ buckets[t].textPlaced[s].placedOrientation
                                               = WritingModeVertical
                                     THEN QuarterTurn ELSE 0
                              /\ \A u \in Tiles :
                                     (BufferUpdates(calls', u, "text") # {}) =>
                                         \A r \in TextSymbols(u) :
                                             \A h \in Slots(buckets[u].textPlaced, r) :
                                                 (SameButOrientation(t, s, u, r)
                                                  /\ ~dynamicText'[u][h].hidden) =>
                                                     dynamicText'[u][h].pos
                                                         = dynamicText'[t][g].pos]_vars

\* a pass emitted vertically placed text with a quarter turn next to
\* horizontal text of another tile at the same position with angle 0
C31_Witness ==
    \E t \in Tiles, u \in Tiles :
        /\ BufferUpdates(calls, t, "text") # {}
        /\ BufferUpdates(calls, u, "text") # {}
        /\ buckets[t].allowVerticalPlacement
        /\ buckets[t].textPlaced[1].placedOrientation = WritingModeVertical
        /\ buckets[u].textPlaced[1].placedOrientation = WritingModeHorizontal
        /\ ShiftedText(dynamicText[t]) # {} /\ ShiftedText(dynamicText[u]) # {}
        /\ dynamicText[t][1].angle = QuarterTurn
        /\ dynamicText[u][1].angle = 0
        /\ dynamicText[t][1].pos = dynamicText[u][1].pos

\* ------------------------------------------- claims on the atlas filtering
\* the symbols of a kind are static and unscaled: no pitch and no pitch
\* alignment, the map neither rotating nor zooming, and no scaling (an icon
\* size other than 1 or icons that need linear filtering for icons, a
\* zoom-dependent text size for text)
StaticUnscaled(t, kind) ==
    /\ view.pitch = 0
    /\ ~view.rotating
    /\ ~view.zooming
    /\ IF kind = "icon"
       THEN /\ ~layer.iconPitchWithMap
            /\ layer.iconSize = 1
            /\ ~buckets[t].iconsNeedLinear
       ELSE /\ ~layer.pitchWithMap
            /\ buckets[t].textSizeData # "zoomDependent"

NearestIfStatic(t, kind) ==
    IF StaticUnscaled(t, kind) THEN "NEAREST" ELSE "LINEAR"

\* the positions of the draw calls of the last frame that bound an atlas
AtlasDraws == {k \in 1..Len(calls) : calls[k].op = "draw" /\ calls[k].atlasBound}

\* C30 as stated: every atlas is bound with NEAREST when the symbols are
\* static and unscaled and with LINEAR otherwise, for icon states, text
\* states and the icon atlas of text states with icons.
C30_NearestWhenStatic ==
    \A k \in AtlasDraws :
        /\ calls[k].atlasFilter = NearestIfStatic(calls[k].tile, calls[k].kind)
        /\ (calls[k].atlasFilterIcon # Absent) =>
               calls[k].atlasFilterIcon = NearestIfStatic(calls[k].tile, "text")

\* C30: the glyph atlas of a text state is always bound with LINEAR; the atlas
\* of an icon state is bound with LINEAR when the icons are SDF icons and
\* otherwise with NEAREST when they are static and unscaled and LINEAR when
\* not; the icon atlas of a text state with icons is bound with NEAREST when
\* the text is static with a size that does not depend on the zoom, and with
\* LINEAR otherwise.
C30_FilterByKind ==
    \A k \in AtlasDraws :
        /\ calls[k].atlasFilter =
               IF calls[k].kind = "text" \/ calls[k].isSDF
               THEN "LINEAR"
               ELSE NearestIfStatic(calls[k].tile, "icon")
        /\ (calls[k].atlasFilterIcon # Absent) =>
               calls[k].atlasFilterIcon = NearestIfStatic(calls[k].tile, "text")

\* a frame at rest bound a plain icon atlas with NEAREST, the glyph atlas with
\* LINEAR and the icon atlas of the text with NEAREST
C30_Witness ==
    \E k \in AtlasDraws, j \in AtlasDraws :
        /\ calls[k].kind = "icon" /\ calls[k].atlasFilter = "NEAREST"
        /\ calls[j].kind = "text" /\ calls[j].atlasFilter = "LINEAR"
        /\ calls[j].atlasFilterIcon = "NEAREST"

\* ------------------------------------------------------ claims on Texture
\* a float-typed image for an integer format, or another image for R32F
FormatMismatch(imageKind, format) ==
    \/ imageKind = "Float32Image" /\ format \in {"RGBA", "R8"}
    \/ imageKind # "Float32Image" /\ format = "R32F"

\* C21: a call of Texture.update (also the one of the constructor) that is
\* given a Float32Image for an RGBA or R8 texture, or an image that is not a
\* Float32Image for an R32F texture, fails an assertion and uploads no pixel
\* data.
C21_FormatMismatchAsserts ==
    \A k \in 1..Len(calls) :
        (calls[k].op = "update"
         /\ FormatMismatch(calls[k].image, calls[k].format)) =>
            /\ \E j \in (k + 1)..Len(calls) : calls[j].op = "assert"
            /\ \A j \in 1..Len(calls) :
                   calls[j].op \notin {"texImage2D", "texSubImage2D"}

\* --------------------------------------- claims on the query transitions
\* C33: in one drawOcclusions call the query of an instance makes at most one
\* transition: it is begun (from free or newly created, in the instance's
\* frame slot, and is pending afterwards) or its result is consumed (it is free
\* afterwards), never both; a query whose result was consumed in a frame is
\* not begun in that frame.
C33_OneTransitionPerFrame ==
    [][FrameStep =>
          \A t \in Tiles, i \in Instances :
              LET begun == QueryOps(calls', "begin", t, i)
                  consumed == QueryOps(calls', "consume", t, i)
              IN  /\ Cardinality(begun) + Cardinality(consumed) <= 1
                  /\ (consumed # {}) =>
                         /\ begun = {}
                         /\ queries[t][i] = "available"
                         /\ queries'[t][i] = "free"
                  /\ (begun # {}) =>
                         /\ queries[t][i] \in {NoQuery, "free"}
                         /\ queries'[t][i] = "pending"
                         /\ InFrameSlot(frameCounter, i, QueryFrameWindow)]_vars

\* a frame consumed the result of an instance's query and issued nothing else
\* for the instance, while it began the query of another instance
C33_Witness ==
    \E t \in Tiles, i \in Instances, u \in Tiles, j \in Instances :
        /\ <<t, i>> # <<u, j>>
        /\ QueryOps(calls, "consume", t, i) # {}
        /\ QueryOps(calls, "begin", t, i) = {}
        /\ QueryOps(calls, "occluder", t, i) = {}
        /\ queries[t][i] = "free"
        /\ QueryOps(calls, "begin", u, j) # {}
        /\ queries[u][j] = "pending"

\* ------------------------------------------------ claims on the halo flag
\* the positions of the draw calls in the log of the last frame
DrawPositions == {k \in 1..Len(calls) : calls[k].op = "draw"}

\* C34: when the loop body of a draw entry whose render state is an SDF state
\* or has a halo ends, u_is_halo of the state's uniform bundle is 0; an entry
\* of the same render state that is issued later in the frame therefore starts
\* with u_is_halo = 0.
C34_HaloFlagReset ==
    \A k \in DrawPositions :
        (calls[k].isSDF \/ calls[k].hasHalo) =>
            /\ calls[k].isHaloAfter = 0
            /\ \A j \in DrawPositions :
                   (j > k /\ calls[j].tile = calls[k].tile
                          /\ calls[j].kind = calls[k].kind) =>
                       calls[j].isHaloBefore = 0

\* with a sort key, two segments of SDF icons of one tile were drawn with a
\* halo, the first starting with the flag of the fresh bundle (1), the second
\* with 0
C34_Witness ==
    \E k \in DrawPositions, j \in DrawPositions :
        /\ j > k
        /\ calls[k].kind = "icon" /\ calls[j].kind = "icon"
        /\ calls[k].tile = calls[j].tile
        /\ calls[k].hasHalo
        /\ calls[k].isHalo = 1 /\ calls[k].isHaloBefore = 1
        /\ calls[k].isHaloAfter = 0
        /\ calls[j].isHaloBefore = 0

\* ------------------------------------------- claims on the render passes
\* the step is a drawSymbols call in a render pass other than translucent
OtherPassStep == \E pass \in RenderPasses \ {"translucent"} : RenderFrame(pass)

\* C32: a drawSymbols call in a render pass other than 'translucent' issues no
\* call at all (no buffer rewrite, no draw call, no query created, begun or
\* read) and leaves the dynamic vertex arrays, the queries and the occlusion
\* states as they were.
C32_OtherPassesDoNothing ==
    [][OtherPassStep =>
          /\ calls' = <<>>
          /\ UNCHANGED <<dynamicText, dynamicIcon, queries, queryCount,
                         occlusionState, warned, frameCounter>>]_vars

\* drawSymbols was last called in the opaque pass, after a frame that shifted
\* text and began a query whose result has become available: a call in the
\* translucent pass would read the result and rewrite the text buffer
C32_Witness ==
    /\ renderPass = "opaque"
    /\ calls = <<>>
    /\ \E c \in CrossTileIDs : variableOffsets[c] # Absent
    /\ ShiftedText(dynamicText[1]) # {}
    /\ \E i \in Instances :
           /\ queries[1][i] = "available"
           /\ InFrameSlot(frameCounter, i, QueryFrameWindow)

\* the call whose log is in calls
LastCall == IF calls = <<>> THEN [op |-> "none"] ELSE calls[1]

\* C35: after a call of bind the magnification filter of the GL texture is
\* the filter of the call and the minification filter is that filter, or its
\* mipmap variant when the texture has mipmaps and ignoreMipMap is not set;
\* after a call of bindExtraParam they are the call's magFilter and minFilter
\* (the mipmap variant for a texture with mipmaps).
C35_FiltersAsRequested ==
    /\ (LastCall.op = "bind") =>
           /\ texture.glMagFilter = LastCall.filter
           /\ texture.glMinFilter =
                  IF texture.useMipmap /\ ~LastCall.ignoreMipMap
                  THEN MipmapFilter(LastCall.filter) ELSE LastCall.filter
    /\ (LastCall.op = "bindExtraParam") =>
           /\ texture.glMagFilter = LastCall.magFilter
           /\ texture.glMinFilter =
                  IF texture.useMipmap
                  THEN MipmapFilter(LastCall.minFilter) ELSE LastCall.minFilter

\* C36: after a call of bind both wrap modes of the GL texture are the wrap
\* of the call; after a call of bindExtraParam they are the call's wrapS and
\* wrapT.
C36_WrapsAsRequested ==
    /\ (LastCall.op = "bind") =>
           /\ texture.glWrapS = LastCall.wrap
           /\ texture.glWrapT = LastCall.wrap
    /\ (LastCall.op = "bindExtraParam") =>
           /\ texture.glWrapS = LastCall.wrapS
           /\ texture.glWrapT = LastCall.wrapT

\* C37: a call of update on a constructed texture that fails its Float32Image
\* assertion leaves the texture's fields, its size among them, as they were.
C37_FailedUpdateKeepsState ==
    [][(texture.constructed
        /\ \E k \in 1..Len(calls') : calls'[k].op = "assert") =>
          /\ texture'.size = texture.size
          /\ texture' = texture]_vars

====
